---- MODULE Spec2Model ----
(***************************************************************************)
(* Verification model of the Jarilo task-orchestration engine:             *)
(*   - the LangGraph state machine of brain/src/orchestration/graph.py     *)
(*     (planner_node, critique_node, executor_node, reflection_node,       *)
(*     should_continue and the edges of the compiled graph);               *)
(*   - the plan-execute scheduler of                                       *)
(*     brain/src/orchestration/plan_execute_agent.py;                      *)
(*   - the plugin sandbox of brain/src/tools/sandbox.py as it is used by   *)
(*     brain/src/tools/plugin_tool.py.                                     *)
(* Strings of the program are kept as strings; a substring test of the     *)
(* code ("good" in critique, "file" in step.lower()) is modelled by the    *)
(* set of the code's keywords that occur in each string of the vocabulary. *)
(***************************************************************************)
EXTENDS Integers, Sequences, FiniteSets, TLC

VARIABLES
    gpc,      \* graph run: the node scheduled next ("idle" outside a run)
    st,       \* graph run: the GraphState
    st0,      \* graph run: the state handed to compiled_graph.ainvoke
    trace,    \* graph run: the nodes that have run, in order
    verdicts, \* graph run: the critiques critique_node has returned, in order
    env,      \* process environment: OPENAI_API_KEY, importability of tools.registry
    fname,    \* direct call: the function called ("none" before the call)
    fin,      \* direct call: its argument state
    fout,     \* direct call: the state it returned
    fdec,     \* direct call: the router's decision, or what became of the provider call
    plan,     \* scheduler: ExecutionPlan.steps, a sequence of Step records
    spc,      \* scheduler: position in validate_plan / execute_plan
    sorted,   \* scheduler: sorted_steps of execute_plan, as positions in plan
    idx,      \* scheduler: position of the loop of execute_plan in sorted
    completed,\* scheduler: completed_steps, as positions in plan
    failed,   \* scheduler: failed_steps, as positions in plan
    invoked,  \* scheduler: per step, how often tool.execute was entered for it
    faults,   \* scheduler: tool and provider failures the environment has produced
    vres,     \* scheduler: what validate_plan returned
    xres,     \* scheduler: the ExecutionResult execute_plan returned
    sb,       \* plugin tool: per PluginTool.execute call, its position, its
              \* PluginSandbox and the container the docker daemon holds for it
    pe,       \* scheduler: the plan_and_execute call (position, outcome)
    sec,      \* security sandbox: one Sandbox.run call
    reg,      \* tool registries: one execute_tool call, counters and invocations
    api,      \* API: the task create_task delivers for a finished graph run
    cc,       \* concurrent calls that share one object: the calls, and the object
    hy,       \* hybrid mode: one call of _hybrid_execution_node
    lib       \* calls on one object outside the runs: selector, ToolResult, sandbox, plugins

gvars == <<gpc, st, st0, trace, verdicts>>
fvars == <<fname, fin, fout, fdec>>
svars == <<plan, spc, sorted, idx, completed, failed, invoked, faults, vres, xres>>
xvars == <<pe, sec, reg, api, cc, hy, lib>>

-----------------------------------------------------------------------------
(* Bounds and program constants *)

\* replan cap of should_continue
Cap == 3

\* node executions after which the model stops following a run
MaxNodeRuns == 8

\* largest replan_attempts of a state handed to a directly called function
MaxAttempts == 4

\* steps of a plan
NSteps == 3

\* dependency edges of a plan handed to validate_plan
MaxEdges == 3

\* dependency edges of a plan handed to execute_plan
MaxExecEdges == 2

\* largest max_retries a step is created with (the dataclass default is 3)
MaxRetries == 1

\* failures (tool calls that raise, provider calls that fail) in one scheduler run
MaxFaults == 2

\* concurrent PluginTool.execute calls
MaxSandboxes == 2

\* concurrent execute_tool calls on one registry
MaxCallers == 3

\* calls made on one PluginSandbox, and containers it starts
MaxSandboxCalls == 5

MaxContainers == 2

\* the largest complexity score given to _select_strategy (scores are 1-10)
MaxComplexity == 10

END == "__end__"

-----------------------------------------------------------------------------
(* Vocabulary: the strings the model draws from, and the keywords of the   *)
(* code each of them contains as a substring (of its lower-cased form      *)
(* where the code lower-cases).                                            *)

Tasks ==
    { "Read imaginary_file.txt and print it", "analyze sales.csv",
      "create vite app demo", "build etl workflow", "customer report",
      "say hello" }

TaskKw(t) ==
    CASE t = "Read imaginary_file.txt and print it" -> {"imaginary_file.txt"}
      [] t = "analyze sales.csv"    -> {"analyze", "csv"}
      [] t = "create vite app demo" -> {"vite", "app"}
      [] t = "build etl workflow"   -> {"workflow", "etl"}
      [] t = "customer report"      -> {"customer", "report"}
      [] OTHER                      -> {}

\* f"Create Vite React app {app_name}": app_name is the last word of the task
AppName(t) == IF t = "create vite app demo" THEN "demo" ELSE "hello"

StepKw(s) ==
    CASE s = "write file"                -> {"file"}
      [] s = "read file"                 -> {"file"}
      [] s = "Read imaginary_file.txt"   -> {"imaginary_file.txt", "file"}
      [] s = "Execute echo command"      -> {"echo"}
      [] s = "Create test.txt file"      -> {"create", "file"}
      [] s = "Generate Python script for data analysis"
            -> {"generate python script for data analysis", "data"}
      [] s = "Execute the generated script in data analyst environment"
            -> {"execute the generated script in data analyst environment", "data"}
      [] s = "Create Vite React app demo"    -> {"vite", "create"}
      [] s = "Create Vite React app hello"   -> {"vite", "create"}
      [] s = "Install dependencies for demo"  -> {"install"}
      [] s = "Install dependencies for hello" -> {"install"}
      [] s = "Extract data from source"      -> {"extract", "data", "source"}
      [] s = "Transform and process data"    -> {"transform", "process", "data"}
      [] s = "Load results to destination"   -> {"load", "destination"}
      [] s = "Generate summary report"       -> {"report", "summary"}
      [] s = "Collect customer data"         -> {"collect", "customer", "data"}
      [] s = "Analyze customer behavior"     -> {"analyze", "behavior", "customer"}
      [] s = "Generate insights report"      -> {"report", "insights"}
      [] s = "Create visualizations"         -> {"create", "visualizations"}
      [] s = "List available files in directory"    -> {"file"}
      [] s = "Try to read an existing file instead" -> {"file"}
      [] s = "Check system status"           -> {}
      [] s = "Execute alternative approach"  -> {}
      [] s = "Fallback: Create file"         -> {"Fallback", "create", "file"}
      [] s = "Fallback: Execute command"     -> {"Fallback"}
      [] s = "Fallback: List directory"      -> {"Fallback"}
      [] s = "Fallback: Read available file" -> {"Fallback", "file"}
      [] OTHER                               -> {}

\* critique strings (critique_node lower-cases the provider's text)
Critiques == { "", "good", "the plan is good", "needs more detail" }

ContainsGood(c) == c \in { "good", "the plan is good" }

\* error strings and the keywords reflection_node looks for in them
ErrFileNotFound == "FileNotFoundError: No such file or directory: 'imaginary_file.txt'"
ErrTool == "tool reported failure"
ErrRaised == "exception raised by tool call"
ErrImport == "No module named 'tools'"

Errors == { "", ErrFileNotFound, ErrTool, ErrRaised, ErrImport }

ErrKw(e) == IF e = ErrFileNotFound THEN {"no such file"} ELSE {}

\* OPENAI_API_KEY: unset, the placeholder of the sample .env, a usable key
Keys == { "", "your_val_here", "sk-live" }

\* a plan is a record: none = TRUE stands for Python's None
NonePlan == [none |-> TRUE, steps |-> <<>>]

ListPlan(steps) == [none |-> FALSE, steps |-> steps]

PlanLen(p) == IF p.none THEN 0 ELSE Len(p.steps)

\* plans the reasoning provider may answer with (parsed, non-empty lines)
ProviderPlans ==
    { <<>>,
      <<"write file", "read file">>,
      <<"Read imaginary_file.txt", "Execute echo command">>,
      <<"Create Vite React app demo">> }

\* outcome of a tool_registry.execute_tool call made by the executor
ToolOutcomes == { "ok", "fail", "raise" }

-----------------------------------------------------------------------------
(* graph.py: the four nodes and the router, as functions of the state and  *)
(* of what the environment answers (provider replies, tool outcomes).      *)

\* what a reasoning-provider call answers: it raises, or returns a plan / a text
PlanReplies ==
    { [raises |-> TRUE, plan |-> <<>>] } \cup
    { [raises |-> FALSE, plan |-> p] : p \in ProviderPlans }

TextReplies ==
    { [raises |-> TRUE, text |-> ""] } \cup
    { [raises |-> FALSE, text |-> c] : c \in Critiques }

HasFallbackStep(steps) == \E i \in 1..Len(steps) : "Fallback" \in StepKw(steps[i])

\* planner_node, the branch taken without a usable API key
PlannerFallbackPlan(task, attempts) ==
    LET kw == TaskKw(task) IN
    IF kw \cap {"csv", "analyze", "data", "plot"} # {}
    THEN <<"Generate Python script for data analysis",
           "Execute the generated script in data analyst environment">>
    ELSE IF attempts > 0
    THEN <<"List available files in directory", "Try to read an existing file instead">>
    ELSE IF "imaginary_file.txt" \in kw
    THEN <<"Read imaginary_file.txt", "Execute echo command">>
    ELSE IF "vite" \in kw \/ ("react" \in kw /\ "app" \in kw)
    THEN IF AppName(task) = "demo"
         THEN <<"Create Vite React app demo", "Install dependencies for demo">>
         ELSE <<"Create Vite React app hello", "Install dependencies for hello">>
    ELSE IF kw \cap {"workflow", "process", "data", "csv", "database", "api", "etl"} # {}
    THEN <<"Extract data from source", "Transform and process data",
           "Load results to destination", "Generate summary report">>
    ELSE IF kw \cap {"customer", "user", "report"} # {}
    THEN <<"Collect customer data", "Analyze customer behavior",
           "Generate insights report", "Create visualizations">>
    ELSE <<"Create test.txt file", "Execute echo command">>

\* variant: the plan is reused on a replan pass too
PlannerReuses_on_replan(s) ==
    /\ ~s.plan.none
    /\ Len(s.plan.steps) > 0
    /\ ~HasFallbackStep(s.plan.steps)

PlannerReuses(s) ==
    /\ ~s.plan.none
    /\ Len(s.plan.steps) > 0
    /\ ~HasFallbackStep(s.plan.steps)
    /\ s.replan_attempts = 0

PlannerNewPlan(s, key, reply) ==
    IF key = "" \/ key = "your_val_here"
    THEN PlannerFallbackPlan(s.task_description, s.replan_attempts)
    ELSE IF reply.raises
         THEN <<"Fallback: Create file", "Fallback: Execute command">>
         ELSE reply.plan

\* variant: the planner builds its output with a fresh counter
planner_node_fresh_counter(s, key, reply) ==
    [ task_description |-> s.task_description,
      plan             |-> IF PlannerReuses(s) THEN s.plan
                           ELSE ListPlan(PlannerNewPlan(s, key, reply)),
      critique         |-> s.critique,
      tool_calls       |-> <<>>,
      tool_results     |-> <<>>,
      replan_attempts  |-> 0,
      error            |-> "" ]

\* variant: the planner never reuses the plan it is given
planner_node_always_plans(s, key, reply) ==
    [ task_description |-> s.task_description,
      plan             |-> ListPlan(PlannerNewPlan(s, key, reply)),
      critique         |-> s.critique,
      tool_calls       |-> <<>>,
      tool_results     |-> <<>>,
      replan_attempts  |-> s.replan_attempts,
      error            |-> "" ]

planner_node(s, key, reply) ==
    [ task_description |-> s.task_description,
      plan             |-> IF PlannerReuses(s) THEN s.plan
                           ELSE ListPlan(PlannerNewPlan(s, key, reply)),
      critique         |-> s.critique,
      tool_calls       |-> <<>>,
      tool_results     |-> <<>>,
      replan_attempts  |-> s.replan_attempts,
      error            |-> "" ]

\* variant: a failed provider call leaves the critique empty
critique_node_unapproved(s, key, reply) ==
    [ s EXCEPT !.critique = IF key = "" THEN "good"
                            ELSE IF reply.raises THEN ""
                            ELSE reply.text ]

\* variant: a critique that does not approve counts as an attempt
critique_node_counts_rejections(s, key, reply) ==
    [ s EXCEPT !.critique = IF key = "" THEN "good"
                            ELSE IF reply.raises THEN "good"
                            ELSE reply.text,
               !.replan_attempts = IF key # "" /\ ~reply.raises /\ ~ContainsGood(reply.text)
                                   THEN @ + 1 ELSE @ ]

critique_node(s, key, reply) ==
    [ s EXCEPT !.critique = IF key = "" THEN "good"
                            ELSE IF reply.raises THEN "good"
                            ELSE reply.text ]

\* the tool the executor dispatches a step to ("" when the step takes the else branch)
RegistryTool(step) ==
    LET kw == StepKw(step) IN
    IF "vite" \in kw /\ "create" \in kw THEN "vite_plugin.create_app"
    ELSE IF "vite" \in kw /\ "install" \in kw THEN "vite_plugin.install_dependencies"
    ELSE IF "generate python script for data analysis" \in kw
    THEN "code_generator_tool.generate_script"
    ELSE IF "execute the generated script in data analyst environment" \in kw
    THEN "data_analyst_plugin.execute_python_script"
    ELSE ""

\* the else branch of the executor: the simulated tool call of a workflow step
SimulatedCall(step) ==
    LET kw == StepKw(step) IN
    IF kw \cap {"extract", "data", "source"} # {}
    THEN [tool |-> "data.extract", result |-> "Data extracted successfully from source", error |-> ""]
    ELSE IF kw \cap {"transform", "process", "clean"} # {}
    THEN [tool |-> "data.transform", result |-> "Data transformed and processed", error |-> ""]
    ELSE IF kw \cap {"load", "destination", "warehouse"} # {}
    THEN [tool |-> "data.load", result |-> "Data loaded to destination", error |-> ""]
    ELSE IF kw \cap {"report", "summary", "insights"} # {}
    THEN [tool |-> "report.generate",
          result |-> "Report generated with insights and visualizations", error |-> ""]
    ELSE IF kw \cap {"collect", "customer", "user"} # {}
    THEN [tool |-> "data.collect", result |-> "Customer data collected and analyzed", error |-> ""]
    ELSE IF kw \cap {"analyze", "behavior"} # {}
    THEN [tool |-> "analysis.perform", result |-> "Customer behavior analysis completed", error |-> ""]
    ELSE IF kw \cap {"visualizations", "charts"} # {}
    THEN [tool |-> "visualization.create", result |-> "Visualizations and dashboard created", error |-> ""]
    ELSE IF "imaginary_file.txt" \in kw
    THEN [tool |-> "file.read", result |-> "Error: File 'imaginary_file.txt' not found",
          error |-> ErrFileNotFound]
    ELSE IF "file" \in kw
    THEN [tool |-> "file.write", result |-> "File test.txt created successfully", error |-> ""]
    ELSE IF "echo" \in kw
    THEN [tool |-> "shell.execute", result |-> "Command executed: echo 'Done'", error |-> ""]
    ELSE [tool |-> "shell.execute", result |-> "Unknown step executed", error |-> ""]

\* one iteration of the executor's loop: tool = "" stands for tool_call = None
ExecuteStep(step, outcome, importOk) ==
    IF ~importOk
    THEN [tool |-> "", result |-> "Execution failed", error |-> ErrImport]
    ELSE IF RegistryTool(step) # ""
    THEN CASE outcome = "ok"   -> [tool |-> RegistryTool(step), result |-> "tool output",
                                   error |-> ""]
           [] outcome = "fail" -> [tool |-> "", result |-> "Error: tool reported failure",
                                   error |-> ErrTool]
           [] OTHER            -> [tool |-> "", result |-> "Execution failed",
                                   error |-> ErrRaised]
    ELSE SimulatedCall(step)

\* variant: the loop without the break after a step's error
RECURSIVE ExecuteFrom_no_break(_, _, _, _, _)
ExecuteFrom_no_break(steps, i, acc, outcomes, importOk) ==
    IF i > Len(steps) THEN acc
    ELSE LET r == ExecuteStep(steps[i], outcomes[i], importOk)
             next == [ tool_calls   |-> IF r.tool # "" THEN Append(acc.tool_calls, r.tool)
                                        ELSE acc.tool_calls,
                       tool_results |-> Append(acc.tool_results, r.result),
                       error        |-> r.error ]
         IN ExecuteFrom_no_break(steps, i + 1, next, outcomes, importOk)

\* the loop over the plan from step i on; acc carries tool_calls, tool_results, error
RECURSIVE ExecuteFrom(_, _, _, _, _)
ExecuteFrom(steps, i, acc, outcomes, importOk) ==
    IF i > Len(steps) THEN acc
    ELSE LET r == ExecuteStep(steps[i], outcomes[i], importOk)
             next == [ tool_calls   |-> IF r.tool # "" THEN Append(acc.tool_calls, r.tool)
                                        ELSE acc.tool_calls,
                       tool_results |-> Append(acc.tool_results, r.result),
                       error        |-> r.error ]
         IN IF r.error # "" THEN next
            ELSE ExecuteFrom(steps, i + 1, next, outcomes, importOk)

\* variant: tool_calls and tool_results start from empty lists
executor_node_replaces(s, outcomes, importOk) ==
    LET r == ExecuteFrom(s.plan.steps, 1,
                         [tool_calls |-> <<>>, tool_results |-> <<>>, error |-> ""],
                         outcomes, importOk)
    IN [ task_description |-> s.task_description,
         plan             |-> s.plan,
         critique         |-> s.critique,
         tool_calls       |-> r.tool_calls,
         tool_results     |-> r.tool_results,
         replan_attempts  |-> s.replan_attempts,
         error            |-> r.error ]

\* executor_node on a state whose plan is a non-empty list
executor_node(s, outcomes, importOk) ==
    LET r == ExecuteFrom(s.plan.steps, 1,
                         [tool_calls |-> s.tool_calls, tool_results |-> s.tool_results,
                          error |-> ""],
                         outcomes, importOk)
    IN [ task_description |-> s.task_description,
         plan             |-> s.plan,
         critique         |-> s.critique,
         tool_calls       |-> r.tool_calls,
         tool_results     |-> r.tool_results,
         replan_attempts  |-> s.replan_attempts,
         error            |-> r.error ]

ReflectionNewPlan(s, key, reply) ==
    IF key = ""
    THEN IF ErrKw(s.error) \cap {"file not found", "no such file"} # {}
         THEN <<"List available files in directory", "Try to read an existing file instead">>
         ELSE <<"Check system status", "Execute alternative approach">>
    ELSE IF reply.raises
         THEN <<"Fallback: List directory", "Fallback: Read available file">>
         ELSE reply.plan

\* variant: the attempt is counted and the error cleared only when the provider answered
reflection_node_counts_answers(s, key, reply) ==
    LET answered == key # "" /\ ~reply.raises
    IN [ task_description |-> s.task_description,
         plan             |-> ListPlan(ReflectionNewPlan(s, key, reply)),
         critique         |-> "",
         tool_calls       |-> s.tool_calls,
         tool_results     |-> s.tool_results,
         replan_attempts  |-> IF answered THEN s.replan_attempts + 1 ELSE s.replan_attempts,
         error            |-> IF answered THEN "" ELSE s.error ]

reflection_node(s, key, reply) ==
    [ task_description |-> s.task_description,
      plan             |-> ListPlan(ReflectionNewPlan(s, key, reply)),
      critique         |-> "",
      tool_calls       |-> s.tool_calls,
      tool_results     |-> s.tool_results,
      replan_attempts  |-> s.replan_attempts + 1,
      error            |-> "" ]

\* variant: the error test comes before the cap test
should_continue_error_first(s) ==
    IF s.error # "" THEN "reflection_node"
    ELSE IF s.replan_attempts >= Cap THEN END
    ELSE IF PlanLen(s.plan) = 0 /\ s.critique = "" THEN "planner_node"
    ELSE IF PlanLen(s.plan) = 0 /\ s.critique # "" THEN END
    ELSE IF ~ContainsGood(s.critique) /\ s.replan_attempts < Cap THEN "planner_node"
    ELSE IF ContainsGood(s.critique) /\ PlanLen(s.plan) > 0 THEN "executor_node"
    ELSE END

\* variant: the critique is tested before the plan is tested for emptiness
should_continue_critique_first(s) ==
    IF s.replan_attempts >= Cap THEN END
    ELSE IF s.error # "" THEN "reflection_node"
    ELSE IF ~ContainsGood(s.critique) /\ s.replan_attempts < Cap THEN "planner_node"
    ELSE IF PlanLen(s.plan) = 0 /\ s.critique = "" THEN "planner_node"
    ELSE IF PlanLen(s.plan) = 0 /\ s.critique # "" THEN END
    ELSE IF ContainsGood(s.critique) /\ PlanLen(s.plan) > 0 THEN "executor_node"
    ELSE END

should_continue(s) ==
    IF s.replan_attempts >= Cap THEN END
    ELSE IF s.error # "" THEN "reflection_node"
    ELSE IF PlanLen(s.plan) = 0 /\ s.critique = "" THEN "planner_node"
    ELSE IF PlanLen(s.plan) = 0 /\ s.critique # "" THEN END
    ELSE IF ~ContainsGood(s.critique) /\ s.replan_attempts < Cap THEN "planner_node"
    ELSE IF ContainsGood(s.critique) /\ PlanLen(s.plan) > 0 THEN "executor_node"
    ELSE END

-----------------------------------------------------------------------------
(* A run of compiled_graph.ainvoke(initial_state): the edges of graph.py.  *)

\* plans a caller hands in: None (runnables.py), [] (integrated_graph.py), a list
InitPlans ==
    { NonePlan, ListPlan(<<>>),
      ListPlan(<<"write file", "read file">>),
      ListPlan(<<"Read imaginary_file.txt", "Execute echo command">>),
      ListPlan(<<"Fallback: Create file", "Fallback: Execute command">>) }

Envs == [key : Keys, importOk : BOOLEAN]

NoState ==
    [ task_description |-> "", plan |-> NonePlan, critique |-> "", tool_calls |-> <<>>,
      tool_results |-> <<>>, replan_attempts |-> 0, error |-> "" ]

OutcomeChoices(n) == [1..n -> ToolOutcomes]

GraphIdle ==
    /\ gpc = "idle" /\ st = NoState /\ st0 = NoState /\ trace = <<>> /\ verdicts = <<>>

FnIdle ==
    /\ fname = "idle" /\ fin = NoState /\ fout = NoState /\ fdec = ""

GraphInit ==
    /\ env \in Envs
    /\ \E t \in Tasks, p \in InitPlans, a \in 0..Cap :
          st = [ task_description |-> t, plan |-> p, critique |-> "", tool_calls |-> <<>>,
                 tool_results |-> <<>>, replan_attempts |-> a, error |-> "" ]
    /\ st0 = st
    /\ gpc = "planner_node"          \* add_edge(START, "planner_node")
    /\ trace = <<>>
    /\ verdicts = <<>>

\* add_edge("planner_node", "critique_node")
PlannerNode ==
    /\ gpc = "planner_node"
    /\ Len(trace) < MaxNodeRuns
    /\ \E reply \in PlanReplies : st' = planner_node(st, env.key, reply)
    /\ gpc' = "critique_node"
    /\ trace' = Append(trace, "planner_node")
    /\ UNCHANGED <<st0, verdicts, env, fvars, svars, sb, xvars>>

\* add_conditional_edges("critique_node", should_continue)
CritiqueNode ==
    /\ gpc = "critique_node"
    /\ Len(trace) < MaxNodeRuns
    /\ \E reply \in TextReplies : st' = critique_node(st, env.key, reply)
    /\ gpc' = should_continue(st')
    /\ trace' = Append(trace, "critique_node")
    /\ verdicts' = Append(verdicts, st'.critique)
    /\ UNCHANGED <<st0, env, fvars, svars, sb, xvars>>

\* executor_node has no outgoing edge: the run ends after it
ExecutorNode ==
    /\ gpc = "executor_node"
    /\ Len(trace) < MaxNodeRuns
    /\ \E outcomes \in OutcomeChoices(PlanLen(st.plan)) : st' = executor_node(st, outcomes, env.importOk)
    /\ gpc' = END
    /\ trace' = Append(trace, "executor_node")
    /\ UNCHANGED <<st0, verdicts, env, fvars, svars, sb, xvars>>

\* add_edge("reflection_node", "planner_node")
ReflectionNode ==
    /\ gpc = "reflection_node"
    /\ Len(trace) < MaxNodeRuns
    /\ \E reply \in PlanReplies : st' = reflection_node(st, env.key, reply)
    /\ gpc' = "planner_node"
    /\ trace' = Append(trace, "reflection_node")
    /\ UNCHANGED <<st0, verdicts, env, fvars, svars, sb, xvars>>

-----------------------------------------------------------------------------
(* A direct call of one of graph.py's functions on a state drawn from      *)
(* FnStates.                                                               *)

FnPlans == InitPlans \cup { ListPlan(<<"Create Vite React app demo">>) }

FnStates ==
    [ task_description : {"Read imaginary_file.txt and print it", "say hello"},
      plan             : FnPlans,
      critique         : Critiques,
      tool_calls       : { <<>>, <<"file.write">> },
      tool_results     : { <<>>, <<"File test.txt created successfully">> },
      replan_attempts  : 0..MaxAttempts,
      error            : {"", ErrFileNotFound, ErrTool} ]

FnInit ==
    /\ env \in Envs
    /\ fname = "none"
    /\ fin \in FnStates
    /\ fout = NoState
    /\ fdec = ""

\* what became of the node's call of the reasoning provider
ProviderCall(called, reply) ==
    IF ~called THEN "not called" ELSE IF reply.raises THEN "failed" ELSE "answered"

CallShouldContinue ==
    /\ fname = "none"
    /\ fname' = "should_continue"
    /\ fdec' = should_continue(fin)
    /\ UNCHANGED <<fin, fout, env, gvars, svars, sb, xvars>>

CallPlanner ==
    /\ fname = "none"
    /\ fname' = "planner_node"
    /\ \E reply \in PlanReplies :
          /\ fout' = planner_node(fin, env.key, reply)
          /\ fdec' = ProviderCall(~PlannerReuses(fin) /\ env.key \notin {"", "your_val_here"},
                                  reply)
    /\ UNCHANGED <<fin, env, gvars, svars, sb, xvars>>

CallCritique ==
    /\ fname = "none"
    /\ fname' = "critique_node"
    /\ \E reply \in TextReplies :
          /\ fout' = critique_node(fin, env.key, reply)
          /\ fdec' = ProviderCall(env.key # "", reply)
    /\ UNCHANGED <<fin, env, gvars, svars, sb, xvars>>

\* on None or [] the executor raises (iteration over None, unbound "error")
CallExecutor ==
    /\ fname = "none"
    /\ PlanLen(fin.plan) > 0
    /\ fname' = "executor_node"
    /\ \E outcomes \in OutcomeChoices(PlanLen(fin.plan)) : fout' = executor_node(fin, outcomes, env.importOk)
    /\ UNCHANGED <<fin, fdec, env, gvars, svars, sb, xvars>>

CallReflection ==
    /\ fname = "none"
    /\ fname' = "reflection_node"
    /\ \E reply \in PlanReplies : fout' = reflection_node(fin, env.key, reply)
    /\ UNCHANGED <<fin, fdec, env, gvars, svars, sb, xvars>>

-----------------------------------------------------------------------------
(* plan_execute_agent.py: Step, ExecutionPlan, the registry.               *)

\* StepPriority
LOW == 1
MEDIUM == 2
HIGH == 3
CRITICAL == 4

\* ToolRegistry.tools: the registered names; "ghost" is a name that is not registered
RegisteredTools == {"python", "shell", "notify"}

\* a tool of a plugin whose execute returns None when it succeeds
ReturnsNone(tool) == tool = "notify"

\* a dependency id that no step of the plan has
MissingId == NSteps + 1

\* Step(id, tool, priority, dependencies, max_retries): the dataclass defaults
NewStep(id, tool, priority, deps, maxRetries) ==
    [ id |-> id, tool |-> tool, priority |-> priority, dependencies |-> deps,
      max_retries |-> maxRetries, retry_count |-> 0, status |-> "pending",
      result |-> "None", error |-> "None", parameters |-> "given" ]

\* dependency relations with at most k edges, as sets of <<step, dependency>>
RECURSIVE DepGraphs(_, _)
DepGraphs(pairs, k) ==
    IF k = 0 THEN { {} }
    ELSE LET smaller == DepGraphs(pairs, k - 1)
         IN smaller \cup { E \cup {e} : E \in smaller, e \in pairs }

DepsOf(E, i) == { e[2] : e \in { d \in E : d[1] = i } }

-----------------------------------------------------------------------------
(* validate_plan and _has_circular_dependencies                            *)

StepWithId(steps, id) ==
    IF \E i \in 1..Len(steps) : steps[i].id = id
    THEN LET i == CHOOSE i \in 1..Len(steps) :
                    /\ steps[i].id = id
                    /\ \A j \in 1..(i - 1) : steps[j].id # id
         IN <<steps[i]>>
    ELSE <<>>

Min(S) == CHOOSE x \in S : \A y \in S : x <= y

\* has_cycle(step_id) with the closure's sets: returns [cycle, visited, rec_stack];
\* "todo" is the part of step.dependencies the for loop has still to visit
RECURSIVE has_cycle(_, _, _, _)
RECURSIVE has_cycle_deps(_, _, _, _, _)
has_cycle(steps, step_id, visited, rec_stack) ==
    LET v == visited \cup {step_id}
        r == rec_stack \cup {step_id}
        found == StepWithId(steps, step_id)
        inner == IF found = <<>> THEN [cycle |-> FALSE, visited |-> v, rec_stack |-> r]
                 ELSE has_cycle_deps(steps, step_id, found[1].dependencies, v, r)
    IN IF inner.cycle THEN inner
       ELSE [inner EXCEPT !.rec_stack = inner.rec_stack \ {step_id}]

has_cycle_deps(steps, step_id, todo, visited, rec_stack) ==
    IF todo = {} THEN [cycle |-> FALSE, visited |-> visited, rec_stack |-> rec_stack]
    ELSE LET dep == Min(todo) IN
         IF dep \notin visited
         THEN LET sub == has_cycle(steps, dep, visited, rec_stack) IN
              IF sub.cycle THEN sub
              ELSE has_cycle_deps(steps, step_id, todo \ {dep}, sub.visited, sub.rec_stack)
         ELSE IF dep \in rec_stack
         THEN [cycle |-> TRUE, visited |-> visited, rec_stack |-> rec_stack]
         ELSE has_cycle_deps(steps, step_id, todo \ {dep}, visited, rec_stack)

\* the outer loop of _has_circular_dependencies from position i on
RECURSIVE CircularFrom(_, _, _, _)
CircularFrom(steps, i, visited, rec_stack) ==
    IF i > Len(steps) THEN FALSE
    ELSE IF steps[i].id \in visited THEN CircularFrom(steps, i + 1, visited, rec_stack)
    ELSE LET sub == has_cycle(steps, steps[i].id, visited, rec_stack) IN
         IF sub.cycle THEN TRUE
         ELSE CircularFrom(steps, i + 1, sub.visited, sub.rec_stack)

\* variant: the search starts from the first step only
has_circular_dependencies_first_only(steps) ==
    IF steps = <<>> THEN FALSE ELSE has_cycle(steps, steps[1].id, {}, {}).cycle

has_circular_dependencies(steps) == CircularFrom(steps, 1, {}, {})

\* validate_plan: the issues (as a set) and is_valid
validate_plan(steps) ==
    LET step_ids == { steps[i].id : i \in 1..Len(steps) }
        toolIssues == { <<"tool", steps[i].id>> :
                          i \in { j \in 1..Len(steps) : steps[j].tool \notin RegisteredTools } }
        depIssues == UNION { { <<"dependency", steps[i].id, d>> :
                                 d \in steps[i].dependencies \ step_ids } :
                             i \in 1..Len(steps) }
        cycleIssues == IF has_circular_dependencies(steps) THEN { <<"circular">> } ELSE {}
        issues == toolIssues \cup depIssues \cup cycleIssues
    IN [ is_valid |-> issues = {}, issues |-> issues ]

-----------------------------------------------------------------------------
(* execute_plan and what it calls                                          *)

SeqRange(q) == { q[i] : i \in 1..Len(q) }

IdsOf(steps, positions) == { steps[positions[i]].id : i \in 1..Len(positions) }

\* variant: the first ready step, whatever its priority
FirstReady(steps, ready) == ready[1]

\* ready_steps.sort(key=priority, reverse=True)[0]: the sort is stable
FirstOfHighestPriority(steps, ready) ==
    LET top == { i \in 1..Len(ready) :
                   \A j \in 1..Len(ready) : steps[ready[j]].priority <= steps[ready[i]].priority }
    IN ready[Min(top)]

RemoveFirst(q, x) ==
    LET k == Min({ i \in 1..Len(q) : q[i] = x })
    IN SubSeq(q, 1, k - 1) \o SubSeq(q, k + 1, Len(q))

\* the while loop of _sort_steps_by_priority_and_dependencies
RECURSIVE SortLoop(_, _, _)
SortLoop(steps, sorted_steps, remaining_steps) ==
    IF remaining_steps = <<>> THEN sorted_steps
    ELSE LET isReady(i) == steps[i].dependencies \subseteq IdsOf(steps, sorted_steps)
             ready_steps == SelectSeq(remaining_steps, isReady)
             candidates == IF ready_steps = <<>> THEN SubSeq(remaining_steps, 1, 1)
                           ELSE ready_steps
             step == FirstOfHighestPriority(steps, candidates)
         IN SortLoop(steps, Append(sorted_steps, step), RemoveFirst(remaining_steps, step))

sort_steps_by_priority_and_dependencies(steps) ==
    SortLoop(steps, <<>>, [i \in 1..Len(steps) |-> i])

\* variant: no test of the dependencies
check_dependencies_always(steps, i, completed_steps) == TRUE

\* variant: any() in place of all()
check_dependencies_any(steps, i, completed_steps) ==
    \/ steps[i].dependencies = {}
    \/ steps[i].dependencies \cap IdsOf(steps, completed_steps) # {}

check_dependencies(steps, i, completed_steps) ==
    steps[i].dependencies \subseteq IdsOf(steps, completed_steps)

\* variant: > in place of >=
retries_exhausted_off_by_one(step) == step.retry_count > step.max_retries

\* retry_step: if step.retry_count >= step.max_retries
retries_exhausted(step) == step.retry_count >= step.max_retries

\* what ToolRegistry.execute_tool can do for a tool name: the environment chooses
\* among these; "notfound" and "invalid" raise before the tool is entered; "none" is
\* the return of a tool whose result is None
ToolReplies(tool, mayFail) ==
    LET returned == IF ReturnsNone(tool) THEN "none" ELSE "ok" IN
    IF tool \notin RegisteredTools THEN {"notfound"}
    ELSE IF mayFail THEN {returned, "invalid", "raise"}
    ELSE {returned}

ToolEntered(reply) == reply \in {"ok", "none", "raise"}

\* execute_tool returned: execute_step returns True
ToolSucceeded(reply) == reply \in {"ok", "none"}

\* execute_step after execute_tool has returned or raised
StepAfterTool(step, reply) ==
    IF ToolSucceeded(reply)
    THEN [step EXCEPT !.status = "success",
                      !.result = IF reply = "none" THEN "None" ELSE "output"]
    ELSE [step EXCEPT !.status = "failed", !.error = reply]

\* variant: the results of all steps of the plan, in plan order
combine_results_plan_order(steps, completed_steps) ==
    LET hasResult(i) == steps[i].result # "None"
        kept == SelectSeq([i \in 1..Len(steps) |-> i], hasResult)
    IN [ k \in 1..Len(kept) |-> [ step_id |-> steps[kept[k]].id,
                                  result |-> steps[kept[k]].result ] ]

\* _combine_results: description and execution_time of an entry are left out
combine_results(steps, completed_steps) ==
    LET hasResult(i) == steps[i].result # "None"
        kept == SelectSeq(completed_steps, hasResult)
    IN [ k \in 1..Len(kept) |-> [ step_id |-> steps[kept[k]].id,
                                  result |-> steps[kept[k]].result ] ]

generate_error_summary(steps, failed_steps) ==
    [ k \in 1..Len(failed_steps) |-> <<steps[failed_steps[k]].id, steps[failed_steps[k]].error>> ]

\* timed_out: the test of max_execution_time was true (the warning of line 523)
NoResult ==
    [ returned |-> FALSE, success |-> FALSE, completed_steps |-> <<>>, failed_steps |-> <<>>,
      final_result |-> <<>>, error_summary |-> <<>>, timed_out |-> FALSE ]

\* variant: success means that every step completed
ExecutionResult_all_completed(steps, completed_steps, failed_steps) ==
    [ returned        |-> TRUE,
      success         |-> Len(completed_steps) = Len(steps),
      completed_steps |-> completed_steps,
      failed_steps    |-> failed_steps,
      final_result    |-> combine_results(steps, completed_steps),
      error_summary   |-> generate_error_summary(steps, failed_steps),
      timed_out       |-> FALSE ]

\* variant: completed_steps lists every step that was executed
ExecutionResult_all_executed(steps, completed_steps, failed_steps) ==
    [ returned        |-> TRUE,
      success         |-> Len(failed_steps) = 0,
      completed_steps |-> completed_steps \o failed_steps,
      failed_steps    |-> failed_steps,
      final_result    |-> combine_results(steps, completed_steps),
      error_summary   |-> generate_error_summary(steps, failed_steps),
      timed_out       |-> FALSE ]

ExecutionResult(steps, completed_steps, failed_steps) ==
    [ returned        |-> TRUE,
      success         |-> Len(failed_steps) = 0,
      completed_steps |-> completed_steps,
      failed_steps    |-> failed_steps,
      final_result    |-> combine_results(steps, completed_steps),
      error_summary   |-> generate_error_summary(steps, failed_steps),
      timed_out       |-> FALSE ]

-----------------------------------------------------------------------------
(* Plans the scheduler is given.                                           *)

\* a plan of n steps: ids 1..n in plan order, dependencies E, step "ghost" (0: none)
\* names an unregistered tool
MakePlan(n, E, prio, maxRetries, ghost) ==
    [ i \in 1..n |-> NewStep(i, IF i = ghost THEN "ghost"
                                ELSE IF i % 3 = 1 THEN "python"
                                ELSE IF i % 3 = 2 THEN "shell" ELSE "notify",
                             prio[i], DepsOf(E, i), maxRetries) ]

\* plans handed to validate_plan: dependencies may name the step itself or a missing id
IsValidatePlan(pl) ==
    \E n \in 0..NSteps :
      \E E \in DepGraphs((1..n) \X ((1..n) \cup {MissingId}), MaxEdges), ghost \in 0..n :
         pl = MakePlan(n, E, [i \in 1..n |-> MEDIUM], MaxRetries, ghost)

\* plans handed to execute_plan: the last step may be HIGH, the others are MEDIUM; the
\* first step may name an unregistered tool; max_retries is 0 or MaxRetries
IsExecutePlan(pl) ==
    \/ pl = <<>>
    \/ \E E \in DepGraphs({ e \in (1..NSteps) \X (1..NSteps) : e[1] # e[2] }, MaxExecEdges),
           high \in {0, NSteps}, r \in {0, MaxRetries}, ghost \in {0, 1} :
         pl = MakePlan(NSteps, E, [i \in 1..NSteps |-> IF i = high THEN HIGH ELSE MEDIUM],
                       r, ghost)

SchedIdle ==
    /\ plan = <<>> /\ spc = "idle" /\ sorted = <<>> /\ idx = 0 /\ completed = <<>>
    /\ failed = <<>> /\ invoked = <<>> /\ faults = 0
    /\ vres = [is_valid |-> FALSE, issues |-> {}] /\ xres = NoResult

ValidateInit ==
    /\ IsValidatePlan(plan)
    /\ spc = "validate"
    /\ sorted = <<>> /\ idx = 0 /\ completed = <<>> /\ failed = <<>>
    /\ invoked = [i \in 1..Len(plan) |-> 0] /\ faults = 0
    /\ vres = [is_valid |-> FALSE, issues |-> {}] /\ xres = NoResult

ValidatePlan ==
    /\ spc = "validate"
    /\ vres' = validate_plan(plan)
    /\ spc' = "validated"
    /\ UNCHANGED <<plan, sorted, idx, completed, failed, invoked, faults, xres>>
    /\ UNCHANGED <<gvars, fvars, env, sb, xvars>>

ExecuteInit ==
    /\ IsExecutePlan(plan)
    /\ spc = "ready"
    /\ sorted = <<>> /\ idx = 0 /\ completed = <<>> /\ failed = <<>>
    /\ invoked = [i \in 1..Len(plan) |-> 0] /\ faults = 0
    /\ vres = [is_valid |-> FALSE, issues |-> {}] /\ xres = NoResult

\* execute_plan up to the for loop
StartExecutePlan ==
    /\ spc = "ready"
    /\ sorted' = sort_steps_by_priority_and_dependencies(plan)
    /\ idx' = 1
    /\ spc' = "loop"
    /\ UNCHANGED <<plan, completed, failed, invoked, faults, vres, xres>>
    /\ UNCHANGED <<gvars, fvars, env, sb, xvars>>

\* the head of the for loop: a step whose dependencies are not all completed is
\* skipped (continue); otherwise execute_step sets it running and calls the tool
LoopSkip ==
    /\ spc = "loop" /\ idx <= Len(sorted)
    /\ ~check_dependencies(plan, sorted[idx], completed)
    /\ plan' = [plan EXCEPT ![sorted[idx]].status = "skipped"]
    /\ idx' = idx + 1
    /\ UNCHANGED <<spc, sorted, completed, failed, invoked, faults, vres, xres>>
    /\ UNCHANGED <<gvars, fvars, env, sb, xvars>>

LoopExecute ==
    /\ spc = "loop" /\ idx <= Len(sorted)
    /\ check_dependencies(plan, sorted[idx], completed)
    /\ plan' = [plan EXCEPT ![sorted[idx]].status = "running"]
    /\ spc' = "tool"
    /\ UNCHANGED <<sorted, idx, completed, failed, invoked, faults, vres, xres>>
    /\ UNCHANGED <<gvars, fvars, env, sb, xvars>>

\* execute_tool returns or raises; execute_step records it; execute_plan appends a
\* successful step to completed_steps and hands a failed one to retry_step
ToolReturns ==
    /\ spc = "tool"
    /\ \E reply \in ToolReplies(plan[sorted[idx]].tool, faults < MaxFaults) :
          /\ plan' = [plan EXCEPT ![sorted[idx]] = StepAfterTool(@, reply)]
          /\ invoked' = [invoked EXCEPT ![sorted[idx]] = @ + IF ToolEntered(reply) THEN 1 ELSE 0]
          /\ faults' = faults + IF reply \in {"invalid", "raise"} THEN 1 ELSE 0
          /\ completed' = IF ToolSucceeded(reply) THEN Append(completed, sorted[idx])
                          ELSE completed
          /\ spc' = IF ToolSucceeded(reply) THEN "check_time" ELSE "retry"
    /\ UNCHANGED <<sorted, idx, failed, vres, xres>>
    /\ UNCHANGED <<gvars, fvars, env, sb, xvars>>

\* retry_step up to the provider call: no retry is left, or retry_count grows by one
RetryRefused ==
    /\ spc = "retry"
    /\ retries_exhausted(plan[sorted[idx]])
    /\ failed' = Append(failed, sorted[idx])
    /\ spc' = "check_time"
    /\ UNCHANGED <<plan, sorted, idx, completed, invoked, faults, vres, xres>>
    /\ UNCHANGED <<gvars, fvars, env, sb, xvars>>

RetryBegins ==
    /\ spc = "retry"
    /\ ~retries_exhausted(plan[sorted[idx]])
    /\ plan' = [plan EXCEPT ![sorted[idx]].retry_count = @ + 1,
                             ![sorted[idx]].status = "retrying"]
    /\ spc' = "alternative"
    /\ UNCHANGED <<sorted, idx, completed, failed, invoked, faults, vres, xres>>
    /\ UNCHANGED <<gvars, fvars, env, sb, xvars>>

\* variant: the alternative approach may name another tool
StepWithAlternative_other_tool(step, alternative_params) ==
    [step EXCEPT !.parameters = IF alternative_params = "None" THEN @ ELSE alternative_params,
                 !.tool = IF alternative_params = "None" THEN @ ELSE "shell",
                 !.status = "running"]

\* variant: the retried step is queued again instead of run
StepWithAlternative_requeued(step, alternative_params) ==
    [step EXCEPT !.parameters = IF alternative_params = "None" THEN @ ELSE alternative_params,
                 !.status = "pending"]

\* retry_step: if alternative_params: step.parameters = alternative_params; then
\* execute_step sets the step running
StepWithAlternative(step, alternative_params) ==
    [step EXCEPT !.parameters = IF alternative_params = "None" THEN @ ELSE alternative_params,
                 !.status = "running"]

\* generate_alternative_approach returns parameters or None; execute_step starts again
AlternativeReturns ==
    /\ spc = "alternative"
    /\ \E params \in {"None", "alternative"} :
          plan' = [plan EXCEPT ![sorted[idx]] = StepWithAlternative(@, params)]
    /\ spc' = "retry_tool"
    /\ UNCHANGED <<sorted, idx, completed, failed, invoked, faults, vres, xres>>
    /\ UNCHANGED <<gvars, fvars, env, sb, xvars>>

RetryToolReturns ==
    /\ spc = "retry_tool"
    /\ \E reply \in ToolReplies(plan[sorted[idx]].tool, faults < MaxFaults) :
          /\ plan' = [plan EXCEPT ![sorted[idx]] = StepAfterTool(@, reply)]
          /\ invoked' = [invoked EXCEPT ![sorted[idx]] = @ + IF ToolEntered(reply) THEN 1 ELSE 0]
          /\ faults' = faults + IF reply \in {"invalid", "raise"} THEN 1 ELSE 0
          /\ completed' = IF ToolSucceeded(reply) THEN Append(completed, sorted[idx])
                          ELSE completed
          /\ failed' = IF ToolSucceeded(reply) THEN failed ELSE Append(failed, sorted[idx])
    /\ spc' = "check_time"
    /\ UNCHANGED <<sorted, idx, vres, xres>>
    /\ UNCHANGED <<gvars, fvars, env, sb, xvars>>

\* variant: the test of the elapsed time only logs the warning
AfterTimeCheck_no_break(timedOut, i) == [spc |-> "loop", idx |-> i + 1]

\* if time.time() - start_time > self.max_execution_time: break; else the next step
AfterTimeCheck(timedOut, i) ==
    IF timedOut THEN [spc |-> "finish", idx |-> i] ELSE [spc |-> "loop", idx |-> i + 1]

\* time.time() - start_time > max_execution_time: the clock is the environment's
CheckTime ==
    /\ spc = "check_time"
    /\ \E timedOut \in BOOLEAN :
          /\ spc' = AfterTimeCheck(timedOut, idx).spc
          /\ idx' = AfterTimeCheck(timedOut, idx).idx
          /\ xres' = [xres EXCEPT !.timed_out = @ \/ timedOut]
    /\ UNCHANGED <<plan, sorted, completed, failed, invoked, faults, vres>>
    /\ UNCHANGED <<gvars, fvars, env, sb, xvars>>

\* after the loop: the ExecutionResult is built and returned
FinishExecutePlan ==
    /\ \/ spc = "finish"
       \/ spc = "loop" /\ idx > Len(sorted)
    /\ xres' = [ExecutionResult(plan, completed, failed) EXCEPT !.timed_out = xres.timed_out]
    /\ spc' = "done"
    /\ UNCHANGED <<plan, sorted, idx, completed, failed, invoked, faults, vres>>
    /\ UNCHANGED <<gvars, fvars, env, sb, xvars>>

-----------------------------------------------------------------------------
(* tools/plugin_tool.py and tools/sandbox.py: PluginTool.execute creates a *)
(* PluginSandbox, starts it, runs the handler and stops it. Each call has  *)
(* its own sandbox; calls of concurrent runs interleave at their awaits.   *)

\* pc: where the call is; handle: PluginSandbox.container is set; container: what
\* the docker daemon holds; stops, removes: container.stop / container.remove calls
\* that succeeded; result: what the call returned ("cancelled": CancelledError left it)
NewCall ==
    [ pc |-> "start", handle |-> FALSE, container |-> "none", stops |-> 0, removes |-> 0,
      result |-> "none" ]

SandboxIdle == sb = <<>>

SandboxInit == sb \in { [e \in 1..n |-> NewCall] : n \in 1..MaxSandboxes }

\* PluginSandbox.start: images.get or containers.run raises a DockerException (the
\* except clause of PluginTool.execute returns an error), or the container runs
StartFails(e) ==
    /\ sb[e].pc = "start"
    /\ sb' = [sb EXCEPT ![e].pc = "returned", ![e].result = "error"]
    /\ UNCHANGED <<gvars, fvars, svars, env, xvars>>

StartSucceeds(e) ==
    /\ sb[e].pc = "start"
    /\ sb' = [sb EXCEPT ![e].pc = "execute", ![e].handle = TRUE, ![e].container = "running"]
    /\ UNCHANGED <<gvars, fvars, svars, env, xvars>>

\* the process of the container ends on its own
ContainerExits(e) ==
    /\ sb[e].container = "running"
    /\ sb[e].pc = "execute"
    /\ sb' = [sb EXCEPT ![e].container = "exited"]
    /\ UNCHANGED <<gvars, fvars, svars, env, xvars>>

\* PluginSandbox.execute: RuntimeError when the container is not running,
\* DockerException from exec_run; PluginTool.execute returns ToolResult(error=...)
ExecuteRaises(e) ==
    /\ sb[e].pc = "execute"
    /\ sb' = [sb EXCEPT ![e].pc = "returned", ![e].result = "error"]
    /\ UNCHANGED <<gvars, fvars, svars, env, xvars>>

ExecuteReturns(e) ==
    /\ sb[e].pc = "execute"
    /\ sb[e].container = "running"
    /\ sb' = [sb EXCEPT ![e].pc = "stop"]
    /\ UNCHANGED <<gvars, fvars, svars, env, xvars>>

\* PluginSandbox.stop: container.stop(timeout=10), then container.remove()
StopContainer(e) ==
    /\ sb[e].pc = "stop"
    /\ sb[e].handle
    /\ \/ sb' = [sb EXCEPT ![e].pc = "remove", ![e].container = "stopped", ![e].stops = @ + 1]
       \/ sb' = [sb EXCEPT ![e].pc = "returned", ![e].result = "error"]
    /\ UNCHANGED <<gvars, fvars, svars, env, xvars>>

RemoveContainer(e) ==
    /\ sb[e].pc = "remove"
    /\ \/ sb' = [sb EXCEPT ![e].pc = "returned", ![e].container = "removed",
                            ![e].removes = @ + 1, ![e].handle = FALSE,
                            ![e].result = "output"]
       \/ sb' = [sb EXCEPT ![e].pc = "returned", ![e].result = "error"]
    /\ UNCHANGED <<gvars, fvars, svars, env, xvars>>

\* the run that awaits the call is cancelled: CancelledError is not an Exception, so
\* the except clause does not see it; a containers.run already handed to a thread
\* may still start the container
Cancelled(e) ==
    /\ sb[e].pc \in {"start", "execute", "stop", "remove"}
    /\ \/ sb' = [sb EXCEPT ![e].pc = "cancelled", ![e].result = "cancelled"]
       \/ /\ sb[e].pc = "start"
          /\ sb' = [sb EXCEPT ![e].pc = "cancelled", ![e].result = "cancelled",
                               ![e].container = "running"]
    /\ UNCHANGED <<gvars, fvars, svars, env, xvars>>

-----------------------------------------------------------------------------
(* plan_and_execute: analyze_task, create_plan, validate_plan, at most one *)
(* improve_plan, validate_plan again, execute_plan.                        *)

\* Step.max_retries of a step built without the argument
DefaultMaxRetries == 3

\* PlanExecuteAgent.max_planning_attempts (set in __init__, read nowhere)
max_planning_attempts == 3

\* "priority" of a step in the provider's JSON: the key is absent, a word as the
\* prompt asks for, or a number
PriorityTokens == {"absent", "high", "2", "3"}

\* StepPriority(step_data.get("priority", "medium")): enum lookup by value; the
\* values of StepPriority are the integers 1..4
PriorityAccepted(tok) == tok \in {"1", "2", "3", "4"}

StepPriorityOf(tok) ==
    CASE tok = "1" -> LOW [] tok = "2" -> MEDIUM [] tok = "3" -> HIGH [] tok = "4" -> CRITICAL

\* what the provider answers to create_plan and improve_plan: the call fails, the
\* content is not the JSON asked for, or it is a plan; step "ghost" (0: none) names
\* an unregistered tool, the last step carries the priority token
PlanJson ==
    { [kind |-> k, steps |-> <<>>] : k \in {"unavailable", "not json"} }
    \cup { [kind |-> "plan",
            steps |-> [i \in 1..n |->
                         [tool |-> IF i = ghost THEN "ghost"
                                   ELSE IF i % 2 = 1 THEN "python" ELSE "shell",
                          priority |-> IF i = n THEN tok ELSE "2"]]] :
             n \in 0..NSteps, ghost \in 0..1, tok \in PriorityTokens }

\* the try block of create_plan and of improve_plan succeeds
JsonUsable(reply) ==
    /\ reply.kind = "plan"
    /\ \A i \in 1..Len(reply.steps) : PriorityAccepted(reply.steps[i].priority)

\* the Step objects built from the JSON: ids in plan order, no dependencies (the
\* "dependencies" of the JSON are not read), default max_retries
StepsFromJson(reply) ==
    [i \in 1..Len(reply.steps) |->
        NewStep(i, reply.steps[i].tool, StepPriorityOf(reply.steps[i].priority), {},
                DefaultMaxRetries)]

PlanCallInit ==
    /\ pe = [pc |-> "analyze", improved |-> 0, outcome |-> "none"]
    /\ plan = <<>> /\ spc = "idle" /\ sorted = <<>> /\ idx = 0 /\ completed = <<>>
    /\ failed = <<>> /\ invoked = <<>> /\ faults = 0
    /\ vres = [is_valid |-> FALSE, issues |-> {}] /\ xres = NoResult

\* analyze_task: a failing provider is replaced by the default analysis
AnalyzeTask ==
    /\ pe.pc = "analyze"
    /\ pe' = [pe EXCEPT !.pc = "create"]
    /\ UNCHANGED <<gvars, fvars, svars, env, sb, sec, reg, api, cc, hy, lib>>

\* create_plan: returns the plan or re-raises what its try block raised, and
\* plan_and_execute re-raises it
CreatePlan ==
    /\ pe.pc = "create"
    /\ \E reply \in PlanJson :
          IF JsonUsable(reply)
          THEN /\ plan' = StepsFromJson(reply)
               /\ pe' = [pe EXCEPT !.pc = "validate"]
          ELSE /\ plan' = plan
               /\ pe' = [pe EXCEPT !.pc = "done", !.outcome = "raised by create_plan"]
    /\ UNCHANGED <<spc, sorted, idx, completed, failed, invoked, faults, vres, xres>>
    /\ UNCHANGED <<gvars, fvars, env, sb, sec, reg, api, cc, hy, lib>>

\* the first validate_plan of plan_and_execute
ValidateCreatedPlan ==
    /\ pe.pc = "validate"
    /\ vres' = validate_plan(plan)
    /\ pe' = [pe EXCEPT !.pc = IF validate_plan(plan).is_valid THEN "execute" ELSE "improve"]
    /\ UNCHANGED <<plan, spc, sorted, idx, completed, failed, invoked, faults, xres>>
    /\ UNCHANGED <<gvars, fvars, env, sb, sec, reg, api, cc, hy, lib>>

\* improve_plan: the improved plan, or the plan it was given when its try block raises
ImprovePlan ==
    /\ pe.pc = "improve"
    /\ \E reply \in PlanJson :
          plan' = IF JsonUsable(reply) THEN StepsFromJson(reply) ELSE plan
    /\ pe' = [pe EXCEPT !.pc = "revalidate", !.improved = @ + 1]
    /\ UNCHANGED <<spc, sorted, idx, completed, failed, invoked, faults, vres, xres>>
    /\ UNCHANGED <<gvars, fvars, env, sb, sec, reg, api, cc, hy, lib>>

\* the second validate_plan: an invalid plan raises ValueError, which is re-raised
ValidateImprovedPlan ==
    /\ pe.pc = "revalidate"
    /\ vres' = validate_plan(plan)
    /\ pe' = IF validate_plan(plan).is_valid
             THEN [pe EXCEPT !.pc = "execute"]
             ELSE [pe EXCEPT !.pc = "done", !.outcome = "raised ValueError"]
    /\ UNCHANGED <<plan, spc, sorted, idx, completed, failed, invoked, faults, xres>>
    /\ UNCHANGED <<gvars, fvars, env, sb, sec, reg, api, cc, hy, lib>>

\* execute_plan is called
CallExecutePlan ==
    /\ pe.pc = "execute" /\ spc = "idle"
    /\ spc' = "ready"
    /\ invoked' = [i \in 1..Len(plan) |-> 0]
    /\ UNCHANGED <<plan, sorted, idx, completed, failed, faults, vres, xres>>
    /\ UNCHANGED <<gvars, fvars, env, sb, xvars>>

\* execute_plan has returned and plan_and_execute returns its result
ReturnResult ==
    /\ pe.pc = "execute" /\ spc = "done"
    /\ pe' = [pe EXCEPT !.pc = "done", !.outcome = "returned"]
    /\ UNCHANGED <<gvars, fvars, svars, env, sb, sec, reg, api, cc, hy, lib>>

-----------------------------------------------------------------------------
(* security/sandbox.py: Sandbox.run(code, language) runs the code with     *)
(* docker_client.containers.run(..., remove=True) and waits for it.        *)

None == "None"

\* byte strings a container writes: nothing, text, bytes that are not UTF-8
Bytes == {"", "Hello, Sandbox!\n", "\\xff\\xfe"}

\* bytes.decode('utf-8') raises UnicodeDecodeError
Undecodable(b) == b = "\\xff\\xfe"

\* bytes.decode('utf-8') where it does not raise
Decode(b) == b

\* str.strip()
Strip(t) == IF t = "Hello, Sandbox!\n" THEN "Hello, Sandbox!" ELSE t

UnicodeDecodeError == "'utf-8' codec can't decode byte 0xff in position 0: invalid start byte"
ContainerErrorText == "Command '['python', '-c', code]' in image 'jarilo-sandbox:latest' returned non-zero exit status 1"
DockerErrorText == "Error while fetching server API version"

\* a call of Sandbox.run: the language asked for, whether the docker daemon answers,
\* what the code does (exits with status 0, exits with status 1, never exits) and
\* what it has written
SecCalls ==
    [ pc : {"call"}, language : {"python", "javascript"}, docker : {"up", "down"},
      behaviour : {"exit0", "exit1", "hang"}, stdout : Bytes, stderr : Bytes,
      output : {None}, error : {None}, raised : {None} ]

SecInit == sec \in SecCalls

\* if language != "python": raise ValueError
RejectLanguage ==
    /\ sec.pc = "call" /\ sec.language # "python"
    /\ sec' = [sec EXCEPT !.pc = "raised", !.raised = "ValueError"]
    /\ UNCHANGED <<gvars, fvars, svars, env, sb, pe, reg, api, cc, hy, lib>>

\* containers.run raises before the code runs: except Exception returns (None, str(e))
ContainersRunFails ==
    /\ sec.pc = "call" /\ sec.language = "python" /\ sec.docker = "down"
    /\ sec' = [sec EXCEPT !.pc = "returned", !.error = DockerErrorText]
    /\ UNCHANGED <<gvars, fvars, svars, env, sb, pe, reg, api, cc, hy, lib>>

\* containers.run has started the container and waits for it to exit
ContainersRunWaits ==
    /\ sec.pc = "call" /\ sec.language = "python" /\ sec.docker = "up"
    /\ sec' = [sec EXCEPT !.pc = "waiting"]
    /\ UNCHANGED <<gvars, fvars, svars, env, sb, pe, reg, api, cc, hy, lib>>

\* status 0: containers.run returns the output; it is decoded and stripped inside
\* the try block, so a UnicodeDecodeError is caught by except Exception
ExitsNormally ==
    /\ sec.pc = "waiting" /\ sec.behaviour = "exit0"
    /\ sec' = IF Undecodable(sec.stdout)
              THEN [sec EXCEPT !.pc = "returned", !.error = UnicodeDecodeError]
              ELSE [sec EXCEPT !.pc = "returned",
                               !.output = IF sec.stdout = "" THEN ""
                                          ELSE Strip(Decode(sec.stdout))]
    /\ UNCHANGED <<gvars, fvars, svars, env, sb, pe, reg, api, cc, hy, lib>>

\* non-zero status: containers.run raises ContainerError; e.stderr is decoded inside
\* the except clause, where a UnicodeDecodeError is caught by nothing
ExitsWithError ==
    /\ sec.pc = "waiting" /\ sec.behaviour = "exit1"
    /\ sec' = IF sec.stderr = ""
              THEN [sec EXCEPT !.pc = "returned", !.error = ContainerErrorText]
              ELSE IF Undecodable(sec.stderr)
              THEN [sec EXCEPT !.pc = "raised", !.raised = "UnicodeDecodeError"]
              ELSE [sec EXCEPT !.pc = "returned", !.error = Decode(sec.stderr)]
    /\ UNCHANGED <<gvars, fvars, svars, env, sb, pe, reg, api, cc, hy, lib>>

-----------------------------------------------------------------------------
(* The two tool registries: ToolRegistry of plan_execute_agent.py (the     *)
(* scheduler's) and ToolRegistry of tools/registry.py (the executor's).    *)

\* tools/registry.py: names in _tools and in _plugin_tools
BuiltinTools == {"file_tool", "shell_tool"}
PluginTools == {"demo.run"}

\* names execute_tool is called with
AgentNames == {"python", "shell", "ghost"}
ToolsNames == {"file_tool", "file.read", "shell.execute", "demo.run", "ghost", "ghost.read"}

\* tools/registry.py execute_tool: tool_name.split(".", 1)[0] through tool_mapping
ToolBase(name) ==
    CASE name = "file.read"     -> "file_tool"
      [] name = "shell.execute" -> "shell_tool"
      [] name = "demo.run"      -> "demo"
      [] name = "ghost.read"    -> "ghost"
      [] OTHER                  -> name

\* the name resolves to a tool: name in self.tools; get_tool does not raise
Resolves(registry, name) ==
    IF registry = "agent" THEN name \in RegisteredTools
    ELSE name \in PluginTools \/ ToolBase(name) \in BuiltinTools \cup PluginTools

\* a call of execute_tool: the registry, the name, whether the parameters satisfy
\* the tool's schema, what the tool does when it runs, and the usage counters
RegCalls ==
    { [ pc |-> "call", registry |-> g, name |-> n, parameters |-> p, behaviour |-> b,
        usage0 |-> u, usage |-> u, invocations |-> 0, outcome |-> "none" ] :
        g \in {"agent", "tools"}, n \in AgentNames \cup ToolsNames,
        p \in {"valid", "invalid"}, b \in {"ok", "raise"},
        u \in [RegisteredTools -> {0, 1}] }

RegInit ==
    /\ reg \in RegCalls
    /\ reg.registry = "agent" => reg.name \in AgentNames
    /\ reg.registry = "tools" => (reg.name \in ToolsNames /\ reg.usage0 = [t \in RegisteredTools |-> 0])

\* the name is not registered: ValueError, from execute_tool or from get_tool
LookupFails ==
    /\ reg.pc = "call" /\ ~Resolves(reg.registry, reg.name)
    /\ reg' = [reg EXCEPT !.pc = "raised", !.outcome = "ValueError: not found"]
    /\ UNCHANGED <<gvars, fvars, svars, env, sb, pe, sec, api, cc, hy, lib>>

\* plan_execute_agent.py: tool.validate_parameters(parameters) is False
ValidationFails ==
    /\ reg.pc = "call" /\ Resolves(reg.registry, reg.name)
    /\ reg.registry = "agent" /\ reg.parameters = "invalid"
    /\ reg' = [reg EXCEPT !.pc = "raised", !.outcome = "ValueError: parameters"]
    /\ UNCHANGED <<gvars, fvars, svars, env, sb, pe, sec, api, cc, hy, lib>>

\* tool.execute is entered: after validate_parameters in plan_execute_agent.py,
\* right after the lookup in tools/registry.py
ToolInvoked ==
    /\ reg.pc = "call" /\ Resolves(reg.registry, reg.name)
    /\ reg.registry = "agent" => reg.parameters = "valid"
    /\ reg' = [reg EXCEPT !.pc = "tool", !.invocations = @ + 1]
    /\ UNCHANGED <<gvars, fvars, svars, env, sb, pe, sec, api, cc, hy, lib>>

\* tool.execute raises and execute_tool lets it through
ToolRaises ==
    /\ reg.pc = "tool" /\ reg.behaviour = "raise"
    /\ reg' = [reg EXCEPT !.pc = "raised", !.outcome = "raised by tool"]
    /\ UNCHANGED <<gvars, fvars, svars, env, sb, pe, sec, api, cc, hy, lib>>

\* tool.execute returns: plan_execute_agent.py counts the use and returns the
\* result; tools/registry.py wraps the ToolResult, whose error is set when the
\* tool found its arguments unusable
ToolCompletes ==
    /\ reg.pc = "tool" /\ reg.behaviour = "ok"
    /\ reg' = IF reg.registry = "agent"
              THEN [reg EXCEPT !.pc = "returned", !.outcome = "result",
                               !.usage[reg.name] = @ + 1]
              ELSE [reg EXCEPT !.pc = "returned",
                               !.outcome = IF reg.parameters = "valid" THEN "success"
                                           ELSE "error result"]
    /\ UNCHANGED <<gvars, fvars, svars, env, sb, pe, sec, api, cc, hy, lib>>

-----------------------------------------------------------------------------
(* Concurrent calls of ToolRegistry.execute_tool (plan_execute_agent.py)   *)
(* on one registry: coroutines of one event loop, which interleave at the  *)
(* await of tool.execute and nowhere else.                                 *)

\* register_tool: self.tool_usage_stats[tool.name] = 0
FreshStats == [t \in RegisteredTools |-> 0]

\* variant: the new count is written from a count read before the await
CountUse_stale(stats, name) == [stats EXCEPT ![name] = 1]

\* self.tool_usage_stats[name] += 1: no await between the read and the write
CountUse(stats, name) == [stats EXCEPT ![name] = @ + 1]

\* cc.calls[c]: the name and parameters of call c and where it is; cc.usage:
\* tool_usage_stats; cc.entered: how often tool.execute was entered, per tool
ConcRegistryInit ==
    \E names \in [1..MaxCallers -> AgentNames], params \in [1..MaxCallers -> {"valid", "invalid"}] :
        cc = [ kind    |-> "registry",
               calls   |-> [c \in 1..MaxCallers |->
                              [pc |-> "start", name |-> names[c], parameters |-> params[c]]],
               usage   |-> FreshStats,
               entered |-> FreshStats ]

\* the name is not registered or validate_parameters fails: ValueError
CallRejected(c) ==
    /\ cc.calls[c].pc = "start"
    /\ cc.calls[c].name \notin RegisteredTools \/ cc.calls[c].parameters = "invalid"
    /\ cc' = [cc EXCEPT !.calls[c].pc = "raised"]
    /\ UNCHANGED <<gvars, fvars, svars, env, sb, pe, sec, reg, api, hy, lib>>

\* result = await tool.execute(parameters): the coroutine is suspended in the tool
CallEntersTool(c) ==
    /\ cc.calls[c].pc = "start"
    /\ cc.calls[c].name \in RegisteredTools /\ cc.calls[c].parameters = "valid"
    /\ cc' = [cc EXCEPT !.calls[c].pc = "tool", !.entered[cc.calls[c].name] = @ + 1]
    /\ UNCHANGED <<gvars, fvars, svars, env, sb, pe, sec, reg, api, hy, lib>>

\* tool.execute returned: the use is counted and the result returned
CallReturns(c) ==
    /\ cc.calls[c].pc = "tool"
    /\ cc' = [cc EXCEPT !.calls[c].pc = "returned",
                        !.usage = CountUse(cc.usage, cc.calls[c].name)]
    /\ UNCHANGED <<gvars, fvars, svars, env, sb, pe, sec, reg, api, hy, lib>>

\* tool.execute raised: execute_tool re-raises, nothing is counted
CallRaises(c) ==
    /\ cc.calls[c].pc = "tool"
    /\ cc' = [cc EXCEPT !.calls[c].pc = "raised"]
    /\ UNCHANGED <<gvars, fvars, svars, env, sb, pe, sec, reg, api, hy, lib>>

-----------------------------------------------------------------------------
(* Concurrent calls of PythonTool.execute (tools/base_tools.py): every     *)
(* call keeps its code in the file temp_execution.py of the working        *)
(* directory, which all calls of the process share.                        *)

\* the payloads of the calls, and what `python <file>` prints for the file's content
Codes == {"print(1)", "print(2)"}

RunPython(content) ==
    CASE content = "print(1)" -> [stdout |-> "1", returncode |-> 0]
      [] content = "print(2)" -> [stdout |-> "2", returncode |-> 0]
      [] content = ""         -> [stdout |-> "", returncode |-> 0]
      [] OTHER                -> [stdout |-> "", returncode |-> 2]

\* what execute gives for a finished subprocess: the result, or RuntimeError
PythonToolResult(run) ==
    IF run.returncode = 0 THEN [raised |-> FALSE, stdout |-> run.stdout]
    ELSE [raised |-> TRUE, stdout |-> ""]

\* the result of a call that runs with no other call in the process
RunAlone(code) == PythonToolResult(RunPython(code))

\* cc.file: the content of temp_execution.py ("absent": no such file);
\* cc.execs[e]: the code of call e, where it is, what its subprocess ran
PythonToolInit ==
    \E codes \in [1..MaxCallers -> Codes] :
        cc = [ kind  |-> "python tool",
               file  |-> "absent",
               execs |-> [e \in 1..MaxCallers |->
                            [pc |-> "start", code |-> codes[e],
                             run |-> RunPython("absent"), result |-> RunAlone("absent")]] ]

\* aiofiles.open(temp_file, 'w'): the file is created or truncated
OpenTempFile(e) ==
    /\ cc.execs[e].pc = "start"
    /\ cc' = [cc EXCEPT !.execs[e].pc = "opened", !.file = ""]
    /\ UNCHANGED <<gvars, fvars, svars, env, sb, pe, sec, reg, api, hy, lib>>

\* await f.write(code) and the close at the end of the async with block
WriteTempFile(e) ==
    /\ cc.execs[e].pc = "opened"
    /\ cc' = [cc EXCEPT !.execs[e].pc = "written", !.file = cc.execs[e].code]
    /\ UNCHANGED <<gvars, fvars, svars, env, sb, pe, sec, reg, api, hy, lib>>

\* create_subprocess_exec("python", "temp_execution.py"): the interpreter
\* reads whatever the file holds when it starts
SubprocessRuns(e) ==
    /\ cc.execs[e].pc = "written"
    /\ cc' = [cc EXCEPT !.execs[e].pc = "ran", !.execs[e].run = RunPython(cc.file)]
    /\ UNCHANGED <<gvars, fvars, svars, env, sb, pe, sec, reg, api, hy, lib>>

\* communicate() returned: the file is unlinked, the result returned or
\* RuntimeError raised
PythonToolFinishes(e) ==
    /\ cc.execs[e].pc = "ran"
    /\ cc' = [cc EXCEPT !.execs[e].pc = "done",
                        !.execs[e].result = PythonToolResult(cc.execs[e].run),
                        !.file = "absent"]
    /\ UNCHANGED <<gvars, fvars, svars, env, sb, pe, sec, reg, api, hy, lib>>

-----------------------------------------------------------------------------
(* _select_strategy of the two orchestrators (integrated_graph.py,         *)
(* simple_integrated_graph.py): one call with a complexity score, the      *)
(* plugins the task requires and the plugins the plugin manager lists.     *)

PluginIds == {"slack", "email"}

Orchestrators == {"IntegratedOrchestrator", "SimpleIntegratedOrchestrator"}

\* if complexity >= 8 / elif complexity <= 4 (integrated_graph.py)
HighComplexity == 8

LowComplexity == 4

\* if complexity >= 6 (simple_integrated_graph.py)
SimpleHighComplexity == 6

\* variant of IntegratedOrchestrator._select_strategy: the plugins are not looked at
integrated_select_strategy_by_score(complexity, required_plugins) ==
    IF complexity >= HighComplexity THEN "plan_execute"
    ELSE IF complexity <= LowComplexity THEN "langgraph"
    ELSE "hybrid"

\* IntegratedOrchestrator._select_strategy
integrated_select_strategy(complexity, required_plugins) ==
    IF required_plugins # {} THEN "plan_execute"
    ELSE IF complexity >= HighComplexity THEN "plan_execute"
    ELSE IF complexity <= LowComplexity THEN "langgraph"
    ELSE "hybrid"

\* SimpleIntegratedOrchestrator._select_strategy: available_plugins is
\* plugin_manager.list_plugins()
simple_select_strategy(complexity, required_plugins, available_plugins) ==
    IF required_plugins # {} /\ (required_plugins \cap available_plugins) # {}
    THEN "plan_execute"
    ELSE IF complexity >= SimpleHighComplexity THEN "plan_execute"
    ELSE "langgraph"

SelectInit ==
    \E o \in Orchestrators, c \in 1..MaxComplexity,
       r \in SUBSET PluginIds, a \in SUBSET PluginIds :
        lib = [ kind |-> "select", pc |-> "called", orchestrator |-> o, complexity |-> c,
                required_plugins |-> r, available_plugins |-> a, strategy |-> "" ]

\* one call of _select_strategy
SelectStrategy ==
    /\ lib.kind = "select" /\ lib.pc = "called"
    /\ lib' = [lib EXCEPT
                 !.pc = "returned",
                 !.strategy =
                    IF lib.orchestrator = "IntegratedOrchestrator"
                    THEN integrated_select_strategy(lib.complexity, lib.required_plugins)
                    ELSE simple_select_strategy(lib.complexity, lib.required_plugins,
                                                lib.available_plugins)]
    /\ UNCHANGED <<gvars, fvars, svars, sb, env, pe, sec, reg, api, cc, hy>>

-----------------------------------------------------------------------------
(* ToolResult.__add__ (tools/base.py): one call self + other. A field is   *)
(* an Optional[str]: None, or a text, here a sequence of characters.       *)

NoneStr == [none |-> TRUE, text |-> <<>>]

Str(text) == [none |-> FALSE, text |-> text]

FieldValues == {NoneStr, Str(<<>>), Str(<<"a">>), Str(<<"b">>)}

\* the truth value Python gives an Optional[str]
Truthy(field) == ~field.none /\ field.text # <<>>

\* variant: the right operand's value replaces the left one
combine_fields_overwrite(field, other_field, concatenate) ==
    [ raised |-> FALSE, value |-> IF Truthy(other_field) THEN other_field ELSE field ]

\* combine_fields of __add__
combine_fields(field, other_field, concatenate) ==
    IF Truthy(field) /\ Truthy(other_field)
    THEN IF concatenate
         THEN [raised |-> FALSE, value |-> Str(field.text \o other_field.text)]
         ELSE [raised |-> TRUE, value |-> NoneStr]
    ELSE [raised |-> FALSE, value |-> IF Truthy(field) THEN field ELSE other_field]

\* __add__: every field is combined with the default concatenate=True; an exception
\* of one combine_fields call leaves __add__
ToolResult_add(self, other) ==
    LET output == combine_fields(self.output, other.output, TRUE)
        error  == combine_fields(self.error, other.error, TRUE)
        system == combine_fields(self.system, other.system, TRUE)
    IN [ raised |-> output.raised \/ error.raised \/ system.raised,
         output |-> output.value, error |-> error.value, system |-> system.value ]

ToolResults == [output : FieldValues, error : FieldValues, system : FieldValues]

AddInit ==
    \E a \in ToolResults, b \in ToolResults :
        lib = [ kind |-> "add", pc |-> "called", self |-> a, other |-> b,
                result |-> [raised |-> FALSE, output |-> NoneStr, error |-> NoneStr,
                            system |-> NoneStr] ]

\* one evaluation of self + other
AddToolResults ==
    /\ lib.kind = "add" /\ lib.pc = "called"
    /\ lib' = [lib EXCEPT !.pc = "returned", !.result = ToolResult_add(lib.self, lib.other)]
    /\ UNCHANGED <<gvars, fvars, svars, sb, env, pe, sec, reg, api, cc, hy>>

-----------------------------------------------------------------------------
(* One PluginSandbox (tools/sandbox.py) under any sequence of start,       *)
(* execute and stop calls, each run to its end before the next.            *)

\* container: self.container (0: None, k: the k-th container);  state: what the
\* docker daemon holds for each container;  removes, released: container.remove calls
\* and stop() calls that succeeded, per container;  life: "new" before the first
\* start succeeded, "started" after one, "stopped" after a stop() that succeeded;
\* last: the call just made, the state it found, its outcome, the docker calls it
\* made and whether it ran a command
NewSandbox ==
    [ kind |-> "sandbox", calls |-> 0, container |-> 0,
      state |-> [k \in 1..MaxContainers |-> "none"],
      removes |-> [k \in 1..MaxContainers |-> 0],
      released |-> [k \in 1..MaxContainers |-> 0],
      life |-> "new",
      last |-> [call |-> "none", life |-> "new", ready |-> FALSE, outcome |-> "none",
                docker_calls |-> 0, ran |-> FALSE] ]

ContainersStarted(s) == Cardinality({ k \in 1..MaxContainers : s.state[k] # "none" })

\* the sandbox holds a container and the daemon reports it running
Ready(s) == s.container # 0 /\ s.state[s.container] = "running"

Called(s, call, outcome, docker_calls, ran) ==
    [ call |-> call, life |-> s.life, ready |-> Ready(s), outcome |-> outcome,
      docker_calls |-> docker_calls, ran |-> ran ]

\* PluginSandbox.start: containers.run returns a new container, or a DockerException
\* is re-raised and self.container is left as it was
sandbox_start(s, fault) ==
    IF fault # "none" THEN [s EXCEPT !.last = Called(s, "start", "raised", 1, FALSE)]
    ELSE [s EXCEPT !.container = ContainersStarted(s) + 1,
                   !.state[ContainersStarted(s) + 1] = "running",
                   !.life = "started",
                   !.last = Called(s, "start", "returned", 2, FALSE)]

\* PluginSandbox.execute, iterated: RuntimeError without a running container; else
\* exec_run runs the command or raises a DockerException
sandbox_execute(s, fault) ==
    IF s.container = 0 THEN [s EXCEPT !.last = Called(s, "execute", "raised", 0, FALSE)]
    ELSE IF s.state[s.container] # "running"
         THEN [s EXCEPT !.last = Called(s, "execute", "raised", 1, FALSE)]
    ELSE IF fault # "none"
         THEN [s EXCEPT !.last = Called(s, "execute", "raised", 2, FALSE)]
    ELSE [s EXCEPT !.last = Called(s, "execute", "returned", 2, TRUE)]

\* variant: self.container is not cleared after the container was removed
sandbox_stop_keeps_container(s, fault) ==
    IF s.container = 0 THEN [s EXCEPT !.last = Called(s, "stop", "nothing", 0, FALSE)]
    ELSE IF s.state[s.container] = "removed" \/ fault = "stop"
         THEN [s EXCEPT !.last = Called(s, "stop", "raised", 1, FALSE)]
    ELSE IF fault = "remove"
         THEN [s EXCEPT !.state[s.container] = "exited",
                        !.last = Called(s, "stop", "raised", 2, FALSE)]
    ELSE [s EXCEPT !.state[s.container] = "removed",
                   !.removes[s.container] = @ + 1,
                   !.released[s.container] = @ + 1,
                   !.life = "stopped",
                   !.last = Called(s, "stop", "returned", 2, FALSE)]

\* PluginSandbox.stop: nothing without a container; else container.stop, then
\* container.remove, then self.container = None; a DockerException of either call is
\* re-raised and self.container stays
sandbox_stop(s, fault) ==
    IF s.container = 0 THEN [s EXCEPT !.last = Called(s, "stop", "nothing", 0, FALSE)]
    ELSE IF s.state[s.container] = "removed" \/ fault = "stop"
         THEN [s EXCEPT !.last = Called(s, "stop", "raised", 1, FALSE)]
    ELSE IF fault = "remove"
         THEN [s EXCEPT !.state[s.container] = "exited",
                        !.last = Called(s, "stop", "raised", 2, FALSE)]
    ELSE [s EXCEPT !.state[s.container] = "removed",
                   !.removes[s.container] = @ + 1,
                   !.released[s.container] = @ + 1,
                   !.container = 0,
                   !.life = "stopped",
                   !.last = Called(s, "stop", "returned", 2, FALSE)]

SandboxCallsInit == lib = NewSandbox

CallStart ==
    /\ lib.kind = "sandbox" /\ lib.calls < MaxSandboxCalls
    /\ \E fault \in {"none", "docker"} :
          /\ fault = "none" => ContainersStarted(lib) < MaxContainers
          /\ lib' = [sandbox_start(lib, fault) EXCEPT !.calls = @ + 1]
    /\ UNCHANGED <<gvars, fvars, svars, sb, env, pe, sec, reg, api, cc, hy>>

CallExecute ==
    /\ lib.kind = "sandbox" /\ lib.calls < MaxSandboxCalls
    /\ \E fault \in {"none", "docker"} :
          lib' = [sandbox_execute(lib, fault) EXCEPT !.calls = @ + 1]
    /\ UNCHANGED <<gvars, fvars, svars, sb, env, pe, sec, reg, api, cc, hy>>

CallStop ==
    /\ lib.kind = "sandbox" /\ lib.calls < MaxSandboxCalls
    /\ \E fault \in {"none", "stop", "remove"} :
          lib' = [sandbox_stop(lib, fault) EXCEPT !.calls = @ + 1]
    /\ UNCHANGED <<gvars, fvars, svars, sb, env, pe, sec, reg, api, cc, hy>>

\* the process of a running container ends on its own, between two calls
SandboxContainerExits ==
    /\ lib.kind = "sandbox"
    /\ \E k \in 1..MaxContainers :
          /\ lib.state[k] = "running"
          /\ lib' = [lib EXCEPT !.state[k] = "exited"]
    /\ UNCHANGED <<gvars, fvars, svars, sb, env, pe, sec, reg, api, cc, hy>>

-----------------------------------------------------------------------------
(* SimplePluginManager (simple_plugin_manager.py): the plugins _load_plugin *)
(* installed, and enable_plugin and disable_plugin calls on them.          *)

\* the plugin directories, and the names of the tools each plugin.py defines
PluginDirs == {"slack", "email", "notes"}

ToolsOfPlugin(plugin_id) ==
    CASE plugin_id = "slack" -> {"slack.post", "slack.read"}
      [] plugin_id = "email" -> {"email.send"}
      [] OTHER               -> {}

\* _load_plugin for every plugin of `loaded`: each tool is registered, the plugin is
\* entered in installed_plugins with enabled=True
LoadedPlugins(loaded) ==
    [ kind      |-> "plugins",
      installed |-> loaded,
      enabled   |-> [q \in PluginDirs |-> q \in loaded],
      tools     |-> UNION { ToolsOfPlugin(q) : q \in loaded },
      last      |-> [call |-> "load", plugin_id |-> "", ok |-> TRUE] ]

PluginsInit == \E loaded \in SUBSET PluginDirs : lib = LoadedPlugins(loaded)

\* enable_plugin: the flag is set; the registry is not touched
enable_plugin(m, plugin_id) ==
    IF plugin_id \notin m.installed
    THEN [m EXCEPT !.last = [call |-> "enable", plugin_id |-> plugin_id, ok |-> FALSE]]
    ELSE [m EXCEPT !.enabled[plugin_id] = TRUE,
                   !.last = [call |-> "enable", plugin_id |-> plugin_id, ok |-> TRUE]]

\* disable_plugin: the plugin's tools are deleted from tool_registry.tools, the flag
\* is cleared
disable_plugin(m, plugin_id) ==
    IF plugin_id \notin m.installed
    THEN [m EXCEPT !.last = [call |-> "disable", plugin_id |-> plugin_id, ok |-> FALSE]]
    ELSE [m EXCEPT !.tools = @ \ ToolsOfPlugin(plugin_id),
                   !.enabled[plugin_id] = FALSE,
                   !.last = [call |-> "disable", plugin_id |-> plugin_id, ok |-> TRUE]]

EnablePlugin ==
    /\ lib.kind = "plugins"
    /\ \E plugin_id \in PluginDirs : lib' = enable_plugin(lib, plugin_id)
    /\ UNCHANGED <<gvars, fvars, svars, sb, env, pe, sec, reg, api, cc, hy>>

DisablePlugin ==
    /\ lib.kind = "plugins"
    /\ \E plugin_id \in PluginDirs : lib' = disable_plugin(lib, plugin_id)
    /\ UNCHANGED <<gvars, fvars, svars, sb, env, pe, sec, reg, api, cc, hy>>

-----------------------------------------------------------------------------
(* The components outside a specification's scope stay idle.               *)

-----------------------------------------------------------------------------
(* What the caller of POST /tasks gets for a run of the compiled graph:    *)
(* simple_integrated_graph.py hands the graph's final state on, and        *)
(* create_task of api/v1/endpoints.py builds the task from it.             *)

\* _langgraph_execution_node after ainvoke returned: {**state, "plan": ...,
\* "tool_results": ..., "final_result": ...}; "error" stays what execute put in the
\* initial state, None
langgraph_execution_node(result) ==
    [ plan |-> result.plan, tool_results |-> result.tool_results,
      final_result |-> result.tool_results, error |-> "None" ]

\* _merge_results_node: metadata["success"] = state.get("error") is None
merge_results_node(state) ==
    [ plan |-> state.plan, final_result |-> state.final_result, error |-> state.error,
      success |-> (state.error = "None") ]

\* create_task: final_task; error is execution_result.get("error"), which decides the status
create_task(execution_result) ==
    [ delivered |-> TRUE,
      status    |-> IF execution_result.error \in {"None", ""} THEN "completed" ELSE "failed",
      plan      |-> execution_result.plan,
      result    |-> execution_result.final_result,
      success   |-> execution_result.success,
      error     |-> execution_result.error ]

\* the run was started by _langgraph_execution_node: plan [], replan_attempts 0
StartedByOrchestrator == st0.plan = ListPlan(<<>>) /\ st0.replan_attempts = 0

\* the graph has stopped and the task is returned to the caller
CreateTask ==
    /\ gpc = END /\ ~api.delivered
    /\ StartedByOrchestrator
    /\ api' = create_task(merge_results_node(langgraph_execution_node(st)))
    /\ UNCHANGED <<gvars, fvars, svars, sb, env, pe, sec, reg, cc, hy, lib>>

-----------------------------------------------------------------------------
(* Hybrid mode of the integrated orchestrator (integrated_graph.py): the   *)
(* node runs the compiled graph and decides whether the step scheduler     *)
(* (plan_execute_agent) runs as well.                                      *)

\* final_result: None
NoFinalResult == [none |-> TRUE, items |-> <<>>]

\* IntegratedOrchestrator._langgraph_execution_node: **state keeps the error "" that
\* execute put in the initial state; only an exception of ainvoke sets error
integrated_langgraph_execution_node(result, raised) ==
    IF raised THEN [error |-> "exception", final_result |-> NoFinalResult]
    ELSE [error |-> "", final_result |-> [none |-> FALSE, items |-> result.tool_results]]

\* if langgraph_result.get("error") or not langgraph_result.get("final_result")
LanggraphFailed(langgraph_result) ==
    \/ langgraph_result.error # ""
    \/ langgraph_result.final_result.none
    \/ langgraph_result.final_result.items = <<>>

\* what _plan_execute_execution_node can return as final_result: None after an
\* exception, else the list built by _combine_results
PlanExecuteFinals == {NoFinalResult, [none |-> FALSE, items |-> <<>>], [none |-> FALSE, items |-> <<"entry">>]}

\* _hybrid_execution_node, given the two nodes' results
hybrid_execution_node(langgraph_result, plan_execute_final) ==
    IF LanggraphFailed(langgraph_result)
    THEN [ pc |-> "returned", plan_execute_used |-> TRUE,
           execution_strategy |-> "hybrid_fallback", final_result |-> plan_execute_final ]
    ELSE [ pc |-> "returned", plan_execute_used |-> FALSE,
           execution_strategy |-> "langgraph", final_result |-> langgraph_result.final_result ]

\* the compiled graph has stopped and ainvoke returned its final state
HybridAfterRun ==
    /\ gpc = END /\ hy.pc = "idle"
    /\ StartedByOrchestrator
    /\ \E plan_execute_final \in PlanExecuteFinals :
          hy' = [ raised |-> FALSE ] @@
                hybrid_execution_node(integrated_langgraph_execution_node(st, FALSE),
                                      plan_execute_final)
    /\ UNCHANGED <<gvars, fvars, svars, sb, env, pe, sec, reg, api, cc, lib>>

\* ainvoke raised: the run was cut off before END (the graph's recursion limit)
HybridAfterException ==
    /\ gpc # END /\ Len(trace) = MaxNodeRuns /\ hy.pc = "idle"
    /\ StartedByOrchestrator
    /\ \E plan_execute_final \in PlanExecuteFinals :
          hy' = [ raised |-> TRUE ] @@
                hybrid_execution_node(integrated_langgraph_execution_node(st, TRUE),
                                      plan_execute_final)
    /\ UNCHANGED <<gvars, fvars, svars, sb, env, pe, sec, reg, api, cc, lib>>

PlanIdle == pe = [pc |-> "idle", improved |-> 0, outcome |-> "none"]

SecIdle == sec = [pc |-> "idle"]

RegIdle == reg = [pc |-> "idle"]

ApiIdle == api = [delivered |-> FALSE]

LibIdle == lib = [kind |-> "idle"]

\* no concurrent calls, no hybrid run, no library call
OthersIdle == cc = [kind |-> "idle"] /\ hy = [pc |-> "idle"] /\ LibIdle

-----------------------------------------------------------------------------
vars == <<gvars, fvars, svars, sb, env, xvars>>

NoEnv == env = [key |-> "", importOk |-> TRUE]

\* a run of the compiled graph
Init == GraphInit /\ FnIdle /\ SchedIdle /\ SandboxIdle /\ PlanIdle /\ SecIdle /\ RegIdle /\ ApiIdle /\ OthersIdle

Next ==
    \/ PlannerNode \/ CritiqueNode \/ ExecutorNode \/ CreateTask
    \/ HybridAfterRun \/ HybridAfterException

Spec == Init /\ [][Next]_vars

\* one direct call of a node function or of the router
FnSpecInit ==
    FnInit /\ GraphIdle /\ SchedIdle /\ SandboxIdle /\ PlanIdle /\ SecIdle /\ RegIdle /\ ApiIdle /\ OthersIdle

FnNext == CallShouldContinue \/ CallPlanner \/ CallCritique \/ CallExecutor \/ CallReflection

FnSpec == FnSpecInit /\ [][FnNext]_vars

\* one call of validate_plan
ValidateSpecInit ==
    /\ ValidateInit /\ GraphIdle /\ FnIdle /\ NoEnv /\ SandboxIdle
    /\ PlanIdle /\ SecIdle /\ RegIdle /\ ApiIdle /\ OthersIdle

ValidateSpec == ValidateSpecInit /\ [][ValidatePlan]_vars

\* one call of execute_plan
SchedSpecInit ==
    /\ ExecuteInit /\ GraphIdle /\ FnIdle /\ NoEnv /\ SandboxIdle
    /\ PlanIdle /\ SecIdle /\ RegIdle /\ ApiIdle /\ OthersIdle

SchedNext ==
    \/ StartExecutePlan \/ LoopSkip \/ LoopExecute \/ ToolReturns \/ RetryRefused
    \/ RetryBegins \/ AlternativeReturns \/ RetryToolReturns \/ CheckTime
    \/ FinishExecutePlan

SchedSpec == SchedSpecInit /\ [][SchedNext]_vars

\* one call of plan_and_execute
PlanSpecInit ==
    /\ PlanCallInit /\ GraphIdle /\ FnIdle /\ NoEnv /\ SandboxIdle
    /\ SecIdle /\ RegIdle /\ ApiIdle /\ OthersIdle

\* the steps create_plan and improve_plan build have no dependencies and
\* max_retries = 3, and execute_plan retries a step once: LoopSkip and RetryRefused
\* cannot happen in a call of plan_and_execute
PlanNext ==
    \/ AnalyzeTask \/ CreatePlan \/ ValidateCreatedPlan \/ ImprovePlan
    \/ ValidateImprovedPlan \/ CallExecutePlan \/ ReturnResult
    \/ StartExecutePlan \/ LoopExecute \/ ToolReturns
    \/ RetryBegins \/ AlternativeReturns \/ RetryToolReturns \/ CheckTime
    \/ FinishExecutePlan

PlanSpec == PlanSpecInit /\ [][PlanNext]_vars

\* one call of Sandbox.run
SecSpecInit ==
    /\ SecInit /\ GraphIdle /\ FnIdle /\ SchedIdle /\ NoEnv /\ SandboxIdle
    /\ PlanIdle /\ RegIdle /\ ApiIdle /\ OthersIdle

SecNext ==
    \/ RejectLanguage \/ ContainersRunFails \/ ContainersRunWaits
    \/ ExitsNormally \/ ExitsWithError

SecSpec == SecSpecInit /\ [][SecNext]_vars

\* one call of execute_tool of either registry
RegSpecInit ==
    /\ RegInit /\ GraphIdle /\ FnIdle /\ SchedIdle /\ NoEnv /\ SandboxIdle
    /\ PlanIdle /\ SecIdle /\ ApiIdle /\ OthersIdle

RegNext == LookupFails \/ ValidationFails \/ ToolInvoked \/ ToolRaises \/ ToolCompletes

RegSpec == RegSpecInit /\ [][RegNext]_vars

\* the components other than lib stay idle
NoRun ==
    /\ GraphIdle /\ FnIdle /\ SchedIdle /\ NoEnv /\ SandboxIdle
    /\ PlanIdle /\ SecIdle /\ RegIdle /\ ApiIdle
    /\ cc = [kind |-> "idle"] /\ hy = [pc |-> "idle"]

\* one call of _select_strategy
SelectSpecInit == SelectInit /\ NoRun

SelectSpec == SelectSpecInit /\ [][SelectStrategy]_vars

\* a sequence of calls on one PluginSandbox
SandboxCallsSpecInit == SandboxCallsInit /\ NoRun

SandboxCallsNext == CallStart \/ CallExecute \/ CallStop \/ SandboxContainerExits

SandboxCallsSpec == SandboxCallsSpecInit /\ [][SandboxCallsNext]_vars

\* enable_plugin and disable_plugin calls on the loaded plugins
PluginsSpecInit == PluginsInit /\ NoRun

PluginsNext == EnablePlugin \/ DisablePlugin

PluginsSpec == PluginsSpecInit /\ [][PluginsNext]_vars

\* one evaluation of ToolResult.__add__
AddSpecInit == AddInit /\ NoRun

AddSpec == AddSpecInit /\ [][AddToolResults]_vars

\* concurrent calls of execute_tool on one registry
ConcRegSpecInit ==
    /\ ConcRegistryInit /\ hy = [pc |-> "idle"] /\ LibIdle
    /\ GraphIdle /\ FnIdle /\ SchedIdle /\ NoEnv /\ SandboxIdle
    /\ PlanIdle /\ SecIdle /\ RegIdle /\ ApiIdle

ConcRegNext ==
    \E c \in 1..MaxCallers :
        CallRejected(c) \/ CallEntersTool(c) \/ CallReturns(c) \/ CallRaises(c)

ConcRegSpec == ConcRegSpecInit /\ [][ConcRegNext]_vars

\* concurrent calls of PythonTool.execute in one process
PythonToolSpecInit ==
    /\ PythonToolInit /\ hy = [pc |-> "idle"] /\ LibIdle
    /\ GraphIdle /\ FnIdle /\ SchedIdle /\ NoEnv /\ SandboxIdle
    /\ PlanIdle /\ SecIdle /\ RegIdle /\ ApiIdle

PythonToolNext ==
    \E e \in 1..MaxCallers :
        OpenTempFile(e) \/ WriteTempFile(e) \/ SubprocessRuns(e) \/ PythonToolFinishes(e)

PythonToolSpec == PythonToolSpecInit /\ [][PythonToolNext]_vars

\* concurrent calls of PluginTool.execute
SandboxSpecInit ==
    /\ SandboxInit /\ GraphIdle /\ FnIdle /\ SchedIdle /\ NoEnv
    /\ PlanIdle /\ SecIdle /\ RegIdle /\ ApiIdle /\ OthersIdle

SandboxNext ==
    \/ \E e \in 1..Len(sb) : StartFails(e)
    \/ \E e \in 1..Len(sb) : StartSucceeds(e)
    \/ \E e \in 1..Len(sb) : ContainerExits(e)
    \/ \E e \in 1..Len(sb) : ExecuteRaises(e)
    \/ \E e \in 1..Len(sb) : ExecuteReturns(e)
    \/ \E e \in 1..Len(sb) : StopContainer(e)
    \/ \E e \in 1..Len(sb) : RemoveContainer(e)
    \/ \E e \in 1..Len(sb) : Cancelled(e)

SandboxSpec == SandboxSpecInit /\ [][SandboxNext]_vars

-----------------------------------------------------------------------------
(* Properties of the graph run (Spec) and of the router (FnSpec)           *)

IsPrefix(p, q) == Len(p) <= Len(q) /\ SubSeq(q, 1, Len(p)) = p

LastNode == IF trace = <<>> THEN "" ELSE trace[Len(trace)]

\* C1: every run reaches END within Cap + 2 node executions: a run that has made
\* Cap + 2 of them is at END.
C1_EndWithinCapPlusTwo == Len(trace) >= Cap + 2 => gpc = END

\* C2: replan_attempts never decreases from one node's output to the next, and in a
\* run started with replan_attempts = 0 it never exceeds the cap.
C2_AttemptsMonotoneAndCapped ==
    [][ /\ st'.replan_attempts >= st.replan_attempts
        /\ st0.replan_attempts = 0 => st'.replan_attempts <= Cap ]_vars

C2_Witness ==
    /\ st0.replan_attempts = 0
    /\ gpc = END
    /\ trace = <<"planner_node", "critique_node", "executor_node">>
    /\ st.replan_attempts = 0

\* C3: should_continue returns END whenever replan_attempts >= Cap, whatever error,
\* critique and plan are.
C3_CapEndsTheRun ==
    (fname = "should_continue" /\ fin.replan_attempts >= Cap) => fdec = END

C3_Witness ==
    /\ fname = "should_continue"
    /\ fin.replan_attempts = Cap
    /\ fin.error # ""
    /\ PlanLen(fin.plan) > 0
    /\ fdec = END

\* C4: when the executor has finished with a non-empty error and replan_attempts
\* below the cap, the node that runs next is reflection.
C4_ErrorLeadsToReflection ==
    (LastNode = "executor_node" /\ st.error # "" /\ st.replan_attempts < Cap)
        => gpc = "reflection_node"

\* C5: from a non-empty plan without fallback steps and replan_attempts = 0, when the
\* first critique approves, the nodes that run are planner, critique, executor, once
\* each, then END; the plan is the one given and, when no step fails, tool_results
\* has one entry per step.
ScenarioStart ==
    /\ ~st0.plan.none
    /\ Len(st0.plan.steps) > 0
    /\ ~HasFallbackStep(st0.plan.steps)
    /\ st0.replan_attempts = 0

C5_PlanCritiqueExecuteEnd ==
    (ScenarioStart /\ verdicts # <<>> /\ ContainsGood(verdicts[1])) =>
        /\ IsPrefix(trace, <<"planner_node", "critique_node", "executor_node">>)
        /\ Len(trace) = 2 => gpc = "executor_node"
        /\ Len(trace) = 3 =>
              /\ gpc = END
              /\ st.plan = st0.plan
              /\ st.error = "" => Len(st.tool_results) = Len(st0.plan.steps)

C5_Witness ==
    /\ st0.plan = ListPlan(<<"write file", "read file">>)
    /\ st0.replan_attempts = 0
    /\ verdicts = <<"good">>
    /\ trace = <<"planner_node", "critique_node", "executor_node">>
    /\ gpc = END
    /\ st.error = ""
    /\ Len(st.tool_results) = 2

\* C6: with replan_attempts below the cap and no error the router follows the table:
\* empty plan and empty critique: planner; empty plan and a critique: END; a plan and
\* a critique without "good": planner; a plan and a critique with "good": executor.
RouterTable(s) ==
    CASE PlanLen(s.plan) = 0 /\ s.critique = ""            -> "planner_node"
      [] PlanLen(s.plan) = 0 /\ s.critique # ""            -> END
      [] PlanLen(s.plan) > 0 /\ ~ContainsGood(s.critique)  -> "planner_node"
      [] PlanLen(s.plan) > 0 /\ ContainsGood(s.critique)   -> "executor_node"

C6_RouterFollowsTable ==
    (fname = "should_continue" /\ fin.replan_attempts < Cap /\ fin.error = "")
        => fdec = RouterTable(fin)

C6_Witness ==
    /\ fname = "should_continue"
    /\ fin.replan_attempts < Cap /\ fin.error = ""
    /\ PlanLen(fin.plan) = 0 /\ fin.critique = "needs more detail"
    /\ fdec = END

-----------------------------------------------------------------------------
(* Properties of the scheduler (ValidateSpec, SchedSpec)                   *)

\* the dependency relation of a plan, independent of the search that validate_plan uses:
\* the ids a step id depends on, and everything reachable through them
DirectDeps(steps, id) ==
    UNION { steps[i].dependencies : i \in { j \in 1..Len(steps) : steps[j].id = id } }

RECURSIVE DepClosure(_, _)
DepClosure(steps, S) ==
    LET more == S \cup UNION { DirectDeps(steps, id) : id \in S }
    IN IF more = S THEN S ELSE DepClosure(steps, more)

DependencyCycle(steps) ==
    \E i \in 1..Len(steps) :
        steps[i].id \in DepClosure(steps, DirectDeps(steps, steps[i].id))

WellFormedPlan(steps) ==
    /\ \A i \in 1..Len(steps) : steps[i].tool \in RegisteredTools
    /\ \A i \in 1..Len(steps) :
          steps[i].dependencies \subseteq { steps[j].id : j \in 1..Len(steps) }
    /\ ~DependencyCycle(steps)

\* C7: validate_plan rejects every plan whose dependency relation has a cycle, and
\* accepts, with no issue, the empty plan and every plan with registered tools,
\* dependencies on ids of the plan and an acyclic dependency relation.
C7_ValidatePlanCycles ==
    spc = "validated" =>
        /\ DependencyCycle(plan) => ~vres.is_valid
        /\ WellFormedPlan(plan) => (vres.is_valid /\ vres.issues = {})

C7_Witness ==
    /\ spc = "validated"
    /\ Len(plan) = 3
    /\ plan[1].dependencies = {}
    /\ plan[2].dependencies = {3}
    /\ plan[3].dependencies = {2}
    /\ \A i \in 1..3 : plan[i].tool \in RegisteredTools
    /\ ~vres.is_valid
    /\ vres.issues = { <<"circular">> }

\* C8: in every state of a scheduler run every step has 0 <= retry_count <= max_retries.
C8_RetryCountBounded ==
    \A i \in 1..Len(plan) :
        plan[i].retry_count >= 0 /\ plan[i].retry_count <= plan[i].max_retries

C8_Witness ==
    /\ spc = "done"
    /\ \E i \in 1..Len(plan) :
          /\ plan[i].max_retries = 0
          /\ plan[i].status = "failed"
          /\ plan[i].retry_count = 0
          /\ invoked[i] = 1
    /\ \E i \in 1..Len(failed) : plan[failed[i]].max_retries = 0

StatusOf(id) == plan[CHOOSE i \in 1..Len(plan) : plan[i].id = id].status

DependsOnUnfinished(i) ==
    \E d \in plan[i].dependencies : StatusOf(d) \in {"failed", "skipped"}

DependenciesSucceeded(i) ==
    \A d \in plan[i].dependencies : StatusOf(d) = "success"

\* the for loop of execute_plan went through every step (it was not left on the
\* max_execution_time test)
LoopRanToEnd == idx > Len(sorted)

\* C9 as stated: when execute_plan has returned, every step that depends on a failed
\* or skipped step is skipped and its tool was never invoked, and every step whose
\* dependencies all succeeded was executed.
C9_FailureSkipsDependentsOnly ==
    spc = "done" =>
        \A i \in 1..Len(plan) :
            /\ DependsOnUnfinished(i) => (plan[i].status = "skipped" /\ invoked[i] = 0)
            /\ DependenciesSucceeded(i) => plan[i].status \in {"success", "failed"}

\* C9 (amended): the same, for the runs of execute_plan that are not stopped by the
\* max_execution_time test.
C9_FailureSkipsDependentsUnlessTimedOut ==
    (spc = "done" /\ LoopRanToEnd) =>
        \A i \in 1..Len(plan) :
            /\ DependsOnUnfinished(i) => (plan[i].status = "skipped" /\ invoked[i] = 0)
            /\ DependenciesSucceeded(i) => plan[i].status \in {"success", "failed"}

C9_Witness ==
    /\ spc = "done" /\ LoopRanToEnd
    /\ Len(plan) = 3
    /\ plan[1].dependencies = {} /\ plan[2].dependencies = {}
    /\ plan[3].dependencies = {1, 2}
    /\ plan[1].status = "failed"
    /\ plan[2].status = "success" /\ invoked[2] = 1
    /\ plan[3].status = "skipped" /\ invoked[3] = 0

-----------------------------------------------------------------------------
(* Properties of the plugin sandbox (SandboxSpec)                          *)

\* C10: when a sandboxed execution has returned or was cancelled, no container
\* started for it is left: it was stopped once and removed once.
C10_ContainerReleasedOnEveryExit ==
    \A e \in 1..Len(sb) :
        sb[e].pc \in {"returned", "cancelled"} =>
            \/ sb[e].container = "none"
            \/ sb[e].container = "removed" /\ sb[e].stops = 1 /\ sb[e].removes = 1

-----------------------------------------------------------------------------
(* Properties of plan_and_execute (PlanSpec)                               *)

\* C11: every call of plan_and_execute ends by returning an ExecutionResult; it
\* never ends by raising, whether the provider fails, the plan stays invalid or
\* tools fail.
C11_AlwaysReturnsAResult ==
    pe.pc = "done" => (pe.outcome = "returned" /\ xres.returned)

\* C18: a step is placed in failed_steps only when its retry_count has reached its
\* max_retries.
C18_FailedOnlyAfterAllRetries ==
    \A k \in 1..Len(failed) : plan[failed[k]].retry_count = plan[failed[k]].max_retries

\* C19: plan_and_execute raises the plan-validation error only after
\* max_planning_attempts improvement attempts.
C19_RaisesAfterAllPlanningAttempts ==
    pe.outcome = "raised ValueError" => pe.improved = max_planning_attempts

-----------------------------------------------------------------------------
(* Properties of Sandbox.run (SecSpec)                                     *)

\* C12: Sandbox.run on Python code never raises; it returns (stdout, None) when the
\* code exits with status 0 and (None, error text) when the code exits with another
\* status or the container runtime fails.
C12_RunReturnsOutputOrError ==
    (sec.pc \in {"returned", "raised"} /\ sec.language = "python") =>
        /\ sec.pc = "returned"
        /\ (sec.output = None) # (sec.error = None)
        /\ (sec.docker = "up" /\ sec.behaviour = "exit0") => sec.error = None
        /\ (sec.docker = "down" \/ sec.behaviour = "exit1") => sec.output = None

\* C13: a caller of Sandbox.run is never left waiting for good: while it waits, a
\* step that ends the wait (the process exits, a timeout fires) is possible.
C13_WaitingCallerIsReleased ==
    sec.pc = "waiting" => ENABLED SecNext

-----------------------------------------------------------------------------
(* What the caller is told about a run of the graph (Spec)                 *)

\* C17: when the graph has stopped with error set, the task delivered to the caller
\* has status failed and carries that error; such a run is never reported completed.
C17_ErrorRunIsReportedFailed ==
    (api.delivered /\ st.error # "") =>
        (api.status = "failed" /\ api.error = st.error)

-----------------------------------------------------------------------------
(* Further properties of execute_plan (SchedSpec)                          *)

\* the step was started: execute_step set it running at least once
Started(i) == plan[i].status \in {"running", "retrying", "success", "failed"}

\* C15: in every state of a scheduler run, a step that was started (it is running or
\* retrying, or it ended success or failed) or whose tool was invoked has all its
\* dependencies at status success; none of them is pending, running or retrying.
C15_StartsOnlyAfterDependenciesSucceeded ==
    \A i \in 1..Len(plan) :
        (Started(i) \/ invoked[i] > 0) => DependenciesSucceeded(i)

C15_Witness ==
    /\ spc = "tool"
    /\ sorted[idx] = 3
    /\ plan[3].dependencies = {1, 2}
    /\ plan[3].status = "running"
    /\ plan[1].status = "success" /\ plan[2].status = "success"

FailedStatusSteps == { i \in 1..Len(plan) : plan[i].status = "failed" }

\* C16: the ExecutionResult execute_plan returns has failed_steps equal to the set of
\* the steps whose status is failed, each listed once, and success is true exactly
\* when that set is empty, also when steps ended skipped or stayed pending.
C16_SuccessIffNoFailedStep ==
    spc = "done" =>
        /\ xres.returned
        /\ SeqRange(xres.failed_steps) = FailedStatusSteps
        /\ Len(xres.failed_steps) = Cardinality(FailedStatusSteps)
        /\ xres.success = (FailedStatusSteps = {})

C16_Witness ==
    /\ spc = "done"
    /\ xres.success /\ xres.failed_steps = <<>>
    /\ \E i \in 1..Len(plan) : plan[i].status = "success"
    /\ \E i \in 1..Len(plan) : plan[i].status = "pending"

C16_WitnessFailed ==
    /\ spc = "done"
    /\ ~xres.success /\ xres.failed_steps = <<1>>
    /\ plan[1].status = "failed" /\ plan[2].status = "skipped" /\ plan[3].status = "success"

\* position of step i in the order the scheduler computed
PositionOf(i) == CHOOSE k \in 1..Len(sorted) : sorted[k] = i

\* step j comes before step i: higher priority, or equal priority and earlier in the plan
RunsBefore(j, i) ==
    \/ plan[j].priority > plan[i].priority
    \/ plan[j].priority = plan[i].priority /\ j < i

\* C20: when a step is started, no pending step whose dependencies all succeeded has a
\* higher priority, or an equal priority and an earlier place in the plan; and in the
\* order computed before the first step, a step whose dependencies are all placed
\* before position k is not passed over at position k for a step of lower priority or
\* later plan order.
C20_HighestPriorityThenPlanOrder ==
    /\ spc = "tool" =>
          \A j \in 1..Len(plan) :
              (plan[j].status = "pending" /\ DependenciesSucceeded(j))
                  => ~RunsBefore(j, sorted[idx])
    /\ (spc = "loop" /\ idx = 1) =>
          \A k \in 1..Len(sorted) : \A j \in 1..Len(plan) :
              ( /\ PositionOf(j) > k
                /\ plan[j].dependencies \subseteq { plan[sorted[m]].id : m \in 1..(k - 1) } )
                  => ~RunsBefore(j, sorted[k])

C20_Witness ==
    /\ spc = "tool" /\ idx = 1 /\ sorted = <<3, 1, 2>>
    /\ plan[3].priority = HIGH /\ plan[1].priority = MEDIUM
    /\ \A i \in 1..3 : plan[i].dependencies = {}
    /\ plan[1].status = "pending" /\ plan[2].status = "pending"

C20_WitnessTie ==
    /\ spc = "tool" /\ idx = 2 /\ sorted = <<2, 3, 1>>
    /\ \A i \in 1..3 : plan[i].priority = MEDIUM
    /\ plan[1].dependencies = {3} /\ plan[2].dependencies = {} /\ plan[3].dependencies = {}
    /\ plan[2].status = "success" /\ plan[1].status = "pending"

-----------------------------------------------------------------------------
(* Properties of execute_tool (RegSpec)                                    *)

\* C14: execute_tool raises, invokes no tool and changes no usage counter when the
\* name is not registered, and raises without invoking the tool when the parameters
\* fail the tool's validation.
C14_RejectsBeforeInvoking ==
    reg.pc \in {"returned", "raised"} =>
        /\ ~Resolves(reg.registry, reg.name) =>
              (reg.pc = "raised" /\ reg.invocations = 0 /\ reg.usage = reg.usage0)
        /\ (Resolves(reg.registry, reg.name) /\ reg.parameters = "invalid") =>
              (reg.pc = "raised" /\ reg.invocations = 0)

-----------------------------------------------------------------------------
(* The final_result of an ExecutionResult (SchedSpec)                      *)

\* the steps final_result has entries for, in the order of the entries
EntrySteps == [ k \in 1..Len(xres.final_result) |-> xres.final_result[k].step_id ]

\* C27 as stated: final_result has exactly one entry for each step of
\* completed_steps, in the order of completion, and none for other steps.
C27_OneEntryPerCompletedStep ==
    spc = "done" =>
        /\ EntrySteps = [ k \in 1..Len(xres.completed_steps) |-> plan[xres.completed_steps[k]].id ]
        /\ \A k \in 1..Len(xres.final_result) :
              xres.final_result[k].result = plan[xres.completed_steps[k]].result

\* C27 (amended): final_result has exactly one entry for each step of completed_steps
\* whose result is not None, in the order of completion, and none for other steps.
C27_OneEntryPerCompletedStepWithResult ==
    spc = "done" =>
        LET hasResult(i) == plan[i].result # "None"
            kept == SelectSeq(xres.completed_steps, hasResult)
        IN /\ Len(xres.final_result) = Len(kept)
           /\ \A k \in 1..Len(kept) :
                 /\ xres.final_result[k].step_id = plan[kept[k]].id
                 /\ xres.final_result[k].result = plan[kept[k]].result
                 /\ plan[kept[k]].status = "success"

C27_Witness ==
    /\ spc = "done"
    /\ Len(plan) = 3
    /\ plan[3].priority = HIGH
    /\ xres.completed_steps = <<3, 1>>
    /\ plan[3].result = "None" /\ plan[3].status = "success"
    /\ plan[2].status = "failed"
    /\ xres.final_result = <<[step_id |-> 1, result |-> "output"]>>

C27_WitnessOrder ==
    /\ spc = "done"
    /\ Len(plan) = 3
    /\ plan[1].dependencies = {2}
    /\ xres.completed_steps = <<2, 1>>
    /\ EntrySteps = <<2, 1>>

-----------------------------------------------------------------------------
(* Retries after a rejected invocation (SchedSpec)                         *)

\* C21: a step whose invocation was rejected because its parameters failed the tool's
\* validation is never retried: retry_step does not raise its retry_count, asks for
\* no alternative parameters and does not invoke the tool a second time.
C21_InvalidParametersNotRetried ==
    spc \in {"alternative", "retry_tool"} => plan[sorted[idx]].error # "invalid"

-----------------------------------------------------------------------------
(* Properties of the node functions called on their own (FnSpec)           *)

\* the tool_results the executor appended to those of its input
Appended == SubSeq(fout.tool_results, Len(fin.tool_results) + 1, Len(fout.tool_results))

C23_ExecutorOnlyAppends ==
    fname = "executor_node" =>
        /\ IsPrefix(fin.tool_calls, fout.tool_calls)
        /\ IsPrefix(fin.tool_results, fout.tool_results)
        /\ Len(Appended) >= 1 /\ Len(Appended) <= PlanLen(fin.plan)
        /\ fout.error = "" => Len(Appended) = PlanLen(fin.plan)
        /\ Len(fout.tool_calls) - Len(fin.tool_calls) <= Len(Appended)

C23_Witness ==
    /\ fname = "executor_node"
    /\ fin.tool_calls = <<"file.write">>
    /\ fin.tool_results = <<"File test.txt created successfully">>
    /\ fin.plan = ListPlan(<<"write file", "read file">>)
    /\ fout.tool_calls = <<"file.write", "file.write", "file.write">>
    /\ Len(fout.tool_results) = 3
    /\ fout.error = ""

\* C24: reflection returns replan_attempts one greater than its input and an empty
\* error, whether the provider answers, fails or is not configured, and leaves
\* task_description, tool_calls and tool_results as they were.
C24_ReflectionCountsAndClears ==
    fname = "reflection_node" =>
        /\ fout.replan_attempts = fin.replan_attempts + 1
        /\ fout.error = ""
        /\ fout.task_description = fin.task_description
        /\ fout.tool_calls = fin.tool_calls
        /\ fout.tool_results = fin.tool_results

C24_Witness ==
    /\ fname = "reflection_node"
    /\ env.key = "sk-live"
    /\ fin.error = ErrTool /\ fin.replan_attempts = 2
    /\ fin.tool_calls = <<"file.write">>
    /\ fout.plan = ListPlan(<<"Fallback: List directory", "Fallback: Read available file">>)
    /\ fout.replan_attempts = 3 /\ fout.error = ""

\* C25: planner returns the plan of its input when that plan is non-empty, has no
\* fallback step and replan_attempts = 0, and planner applied to that output returns
\* the same plan again; otherwise its plan is the provider's, or the fallback plan of a
\* failed provider call, or the plan of the branch without a usable key; its output
\* always has error = "" and the replan_attempts of its input.
C25_PlannerReusesOrPlans ==
    fname = "planner_node" =>
        LET reusable == /\ PlanLen(fin.plan) > 0
                        /\ \A i \in 1..PlanLen(fin.plan) : "Fallback" \notin StepKw(fin.plan.steps[i])
                        /\ fin.replan_attempts = 0
        IN /\ fout.error = ""
           /\ fout.replan_attempts = fin.replan_attempts
           /\ reusable =>
                 /\ fout.plan = fin.plan
                 /\ \A reply \in PlanReplies : planner_node(fout, env.key, reply).plan = fout.plan
           /\ ~reusable =>
                 /\ ~fout.plan.none
                 /\ fdec = "answered" => fout.plan.steps \in ProviderPlans
                 /\ fdec = "failed" =>
                       fout.plan.steps = <<"Fallback: Create file", "Fallback: Execute command">>
                 /\ fdec = "not called" =>
                       fout.plan.steps = PlannerFallbackPlan(fin.task_description,
                                                             fin.replan_attempts)

C25_Witness ==
    /\ fname = "planner_node"
    /\ env.key = "sk-live"
    /\ fin.plan = ListPlan(<<"write file", "read file">>)
    /\ fin.replan_attempts = 0
    /\ fout.plan = fin.plan
    /\ fdec = "not called"

\* C26: a failed provider call makes planner return the fallback plan with an empty
\* error, and makes critique return "good"; the router then does not choose planner.
C26_ProviderFailureIsAbsorbed ==
    /\ (fname = "planner_node" /\ fdec = "failed") =>
          /\ fout.plan = ListPlan(<<"Fallback: Create file", "Fallback: Execute command">>)
          /\ fout.error = ""
    /\ (fname = "critique_node" /\ fdec = "failed") =>
          /\ fout.critique = "good"
          /\ should_continue(fout) # "planner_node"

C26_Witness ==
    /\ fname = "critique_node" /\ fdec = "failed"
    /\ fin.critique = "needs more detail"
    /\ fin.plan = ListPlan(<<"write file", "read file">>)
    /\ fin.replan_attempts = 0 /\ fin.error = ""
    /\ fout.critique = "good"
    /\ should_continue(fout) = "executor_node"

C26_WitnessPlanner ==
    /\ fname = "planner_node" /\ fdec = "failed"
    /\ fin.plan = ListPlan(<<>>)
    /\ fout.plan = ListPlan(<<"Fallback: Create file", "Fallback: Execute command">>)

-----------------------------------------------------------------------------
(* Usage counters under concurrent calls (ConcRegSpec)                     *)

CallsAt(positions, tool) ==
    Cardinality({ c \in 1..MaxCallers :
                    cc.calls[c].name = tool /\ cc.calls[c].pc \in positions })

AllCallsOver == \A c \in 1..MaxCallers : cc.calls[c].pc \in {"returned", "raised"}

\* C28 as stated: when all the concurrent calls are over, each tool's usage counter
\* equals the number of times the tool was invoked through execute_tool.
C28_CounterEqualsInvocations ==
    AllCallsOver => \A t \in RegisteredTools : cc.usage[t] = cc.entered[t]

\* C28 (amended): in every state of every interleaving, each tool's usage counter
\* equals the number of calls of the tool that have returned from execute_tool; calls
\* that raised, in the tool or before it, are not counted, and no count is lost or
\* made twice.
C28_CounterEqualsReturnedCalls ==
    cc.kind = "registry" =>
        \A t \in RegisteredTools :
            /\ cc.usage[t] = CallsAt({"returned"}, t)
            /\ cc.entered[t] = cc.usage[t] + CallsAt({"tool"}, t)
                                 + Cardinality({ c \in 1..MaxCallers :
                                                   /\ cc.calls[c].name = t
                                                   /\ cc.calls[c].parameters = "valid"
                                                   /\ cc.calls[c].pc = "raised" })

C28_Witness ==
    /\ cc.kind = "registry"
    /\ \A c \in 1..3 : cc.calls[c].name = "python"
    /\ cc.calls[1].pc = "returned" /\ cc.calls[2].pc = "returned" /\ cc.calls[3].pc = "tool"
    /\ cc.entered["python"] = 3
    /\ cc.usage["python"] = 2

-----------------------------------------------------------------------------
(* Interleaved tool executions (PythonToolSpec)                            *)

\* C29: interleaved tool executions do not interfere: each finished execution has run
\* the payload given in its own parameters and returned the result it returns when
\* run alone.
C29_ExecutionsDoNotInterfere ==
    cc.kind = "python tool" =>
        \A e \in 1..MaxCallers :
            cc.execs[e].pc = "done" =>
                /\ cc.execs[e].run = RunPython(cc.execs[e].code)
                /\ cc.execs[e].result = RunAlone(cc.execs[e].code)

-----------------------------------------------------------------------------
(* Hybrid mode (Spec)                                                      *)

\* the run of the state machine ended with an error: ainvoke raised, or the final
\* state has error set
StateMachineEndedWithError == hy.raised \/ st.error # ""

\* C30: when the hybrid node has returned, the step scheduler was started exactly when
\* the state-machine run ended with an error or an empty result; otherwise the state
\* machine's result is what the node returns.
C30_FallbackIffErrorOrEmpty ==
    hy.pc = "returned" =>
        /\ hy.plan_execute_used <=> (StateMachineEndedWithError \/ st.tool_results = <<>>)
        /\ ~hy.plan_execute_used =>
              hy.final_result = [none |-> FALSE, items |-> st.tool_results]

-----------------------------------------------------------------------------
(* The strategy selector (SelectSpec)                                      *)

\* the table of the claim for thresholds high and low
StrategyTable(matched, complexity, high, low) ==
    IF matched \/ complexity >= high THEN "plan_execute"
    ELSE IF complexity <= low THEN "langgraph"
    ELSE "hybrid"

\* the thresholds the orchestrator compares the score with
HighOf(orchestrator) ==
    IF orchestrator = "IntegratedOrchestrator" THEN HighComplexity ELSE SimpleHighComplexity

LowOf(orchestrator) ==
    IF orchestrator = "IntegratedOrchestrator" THEN LowComplexity ELSE SimpleHighComplexity - 1

\* C31 as stated: the strategy is a function of the complexity score and the set of
\* required plugins alone: plan_execute when a plugin is required or the score is at
\* or above the high threshold, langgraph at or below the low threshold, hybrid in the
\* remaining cases.
C31_StrategyByScoreAndRequired ==
    (lib.kind = "select" /\ lib.pc = "returned") =>
        lib.strategy = StrategyTable(lib.required_plugins # {}, lib.complexity,
                                     HighOf(lib.orchestrator), LowOf(lib.orchestrator))

\* C31 (amended): IntegratedOrchestrator follows the table with thresholds 8 and 4 and
\* a match meaning that some plugin is required; SimpleIntegratedOrchestrator follows
\* it with thresholds 6 and 5, so it never answers hybrid, and a match meaning that a
\* required plugin is among the plugins the plugin manager lists.
C31_StrategyByTable ==
    (lib.kind = "select" /\ lib.pc = "returned") =>
        IF lib.orchestrator = "IntegratedOrchestrator"
        THEN lib.strategy = StrategyTable(lib.required_plugins # {}, lib.complexity,
                                          HighComplexity, LowComplexity)
        ELSE /\ lib.strategy =
                  StrategyTable(\E q \in lib.required_plugins : q \in lib.available_plugins,
                                lib.complexity, SimpleHighComplexity,
                                SimpleHighComplexity - 1)
             /\ lib.strategy # "hybrid"

C31_Witness ==
    /\ lib.kind = "select" /\ lib.pc = "returned"
    /\ lib.orchestrator = "IntegratedOrchestrator"
    /\ lib.complexity = 6 /\ lib.required_plugins = {}
    /\ lib.strategy = "hybrid"

C31_WitnessSimple ==
    /\ lib.kind = "select" /\ lib.pc = "returned"
    /\ lib.orchestrator = "SimpleIntegratedOrchestrator"
    /\ lib.complexity = 5 /\ lib.required_plugins = {"slack"} /\ lib.available_plugins = {}
    /\ lib.strategy = "langgraph"

-----------------------------------------------------------------------------
(* The max_execution_time test (SchedSpec)                                 *)

NotStarted(i) == plan[i].status \in {"pending", "skipped"}

\* C32: once the test after a step has found the elapsed time above
\* max_execution_time, the loop is left and no further step is started: the steps
\* behind the current one are pending and their tools were never invoked, every step
\* that is pending or skipped is in neither completed_steps nor failed_steps, and the
\* ExecutionResult that is returned carries the two lists.
C32_TimeoutStopsTheRun ==
    xres.timed_out =>
        /\ spc \in {"finish", "done"}
        /\ idx <= Len(sorted)
        /\ \A j \in (idx + 1)..Len(sorted) :
              plan[sorted[j]].status = "pending" /\ invoked[sorted[j]] = 0
        /\ \A i \in 1..Len(plan) :
              NotStarted(i) =>
                  /\ invoked[i] = 0
                  /\ \A k \in 1..Len(completed) : completed[k] # i
                  /\ \A k \in 1..Len(failed) : failed[k] # i
        /\ spc = "done" =>
              /\ xres.returned
              /\ xres.completed_steps = completed /\ xres.failed_steps = failed
              /\ \A i \in 1..Len(plan) :
                    NotStarted(i) =>
                        /\ \A k \in 1..Len(xres.completed_steps) : xres.completed_steps[k] # i
                        /\ \A k \in 1..Len(xres.failed_steps) : xres.failed_steps[k] # i

\* the run was stopped after its first step: two steps were never started
C32_Witness ==
    /\ xres.timed_out /\ spc = "done" /\ xres.returned
    /\ Len(plan) = 3 /\ idx = 1
    /\ plan[sorted[2]].status = "pending" /\ plan[sorted[3]].status = "pending"
    /\ Len(completed) + Len(failed) = 1

-----------------------------------------------------------------------------
(* Combining two ToolResults (AddSpec)                                     *)

FieldNames == {"output", "error", "system"}

\* both operands set the field, to different texts
Conflicting(f) ==
    /\ Truthy(lib.self[f]) /\ Truthy(lib.other[f])
    /\ lib.self[f] # lib.other[f]

\* what the sum holds in a field, as the claim and the code agree: the only value
\* that is set, or the two values in operand order
Combined(f) ==
    IF Truthy(lib.self[f]) /\ Truthy(lib.other[f])
    THEN Str(lib.self[f].text \o lib.other[f].text)
    ELSE IF Truthy(lib.self[f]) THEN lib.self[f]
    ELSE IF Truthy(lib.other[f]) THEN lib.other[f]
    ELSE lib.result[f]

\* C33 as stated: the sum holds in each field the only value that is set or the two
\* values in operand order, and a sum whose operands set one field to conflicting
\* non-empty values fails with an error.
C33_CombinesOrFailsOnConflict ==
    (lib.kind = "add" /\ lib.pc = "returned") =>
        IF \E f \in FieldNames : Conflicting(f)
        THEN lib.result.raised
        ELSE ~lib.result.raised /\ \A f \in FieldNames : lib.result[f] = Combined(f)

\* C33 (amended): the sum never fails; in each field it holds the only non-empty value
\* when one operand sets it, the two values concatenated in operand order when both
\* set it, conflicting or not, and an empty value (None or "") when neither does.
C33_AlwaysCombines ==
    (lib.kind = "add" /\ lib.pc = "returned") =>
        /\ ~lib.result.raised
        /\ \A f \in FieldNames :
              /\ lib.result[f] = Combined(f)
              /\ (~Truthy(lib.self[f]) /\ ~Truthy(lib.other[f])) => ~Truthy(lib.result[f])

C33_Witness ==
    /\ lib.kind = "add" /\ lib.pc = "returned"
    /\ lib.self.output = Str(<<"a">>) /\ lib.other.output = Str(<<"b">>)
    /\ lib.self.error = NoneStr /\ lib.other.error = Str(<<"b">>)
    /\ lib.result.output = Str(<<"a", "b">>)
    /\ lib.result.error = Str(<<"b">>)
    /\ ~lib.result.raised

-----------------------------------------------------------------------------
(* What execute_plan changes in the plan (SchedSpec)                       *)

\* the fields of step i that planning fixed, parameters apart, are the same in the
\* next state
IdentityKept(i) ==
    /\ plan'[i].id = plan[i].id
    /\ plan'[i].tool = plan[i].tool
    /\ plan'[i].priority = plan[i].priority
    /\ plan'[i].dependencies = plan[i].dependencies
    /\ plan'[i].max_retries = plan[i].max_retries

\* C34 as stated: no step of execute_plan, retries included, changes a step's id,
\* tool, parameters, priority or dependencies, or the number and order of the steps.
C34_OnlyOutcomeFieldsChange ==
    [][ /\ Len(plan') = Len(plan)
        /\ \A i \in 1..Len(plan) :
              IdentityKept(i) /\ plan'[i].parameters = plan[i].parameters ]_vars

\* C34 (amended): no step of execute_plan changes a step's id, tool, priority or
\* dependencies, or the number and order of the steps; parameters change only in
\* retry_step, for the step being retried, when the provider returned alternative
\* parameters, and by then its retry_count has grown.
C34_OnlyOutcomeFieldsAndRetryParametersChange ==
    [][ /\ Len(plan') = Len(plan)
        /\ \A i \in 1..Len(plan) :
              /\ IdentityKept(i)
              /\ plan'[i].parameters # plan[i].parameters =>
                    /\ spc = "alternative" /\ i = sorted[idx]
                    /\ plan[i].status = "retrying" /\ plan'[i].status = "running"
                    /\ plan[i].retry_count >= 1
                    /\ plan'[i].parameters = "alternative" ]_vars

\* a step was retried with alternative parameters and the run is over
C34_Witness ==
    /\ spc = "done"
    /\ \E i \in 1..Len(plan) :
          /\ plan[i].parameters = "alternative" /\ plan[i].retry_count = 1
          /\ plan[i].status = "success"
          /\ plan[i].tool = "python" /\ plan[i].id = i

-----------------------------------------------------------------------------
(* start, execute and stop on one PluginSandbox (SandboxCallsSpec)         *)

\* C35: stop on a sandbox that was never started or whose stop has succeeded does
\* nothing and does not raise; no container is removed, and no stop() succeeds for
\* it, more than once; execute on a sandbox without a running container raises and
\* runs no command.
C35_StopIsIdempotent ==
    lib.kind = "sandbox" =>
        /\ (lib.last.call = "stop" /\ lib.last.life \in {"new", "stopped"}) =>
              (lib.last.outcome = "nothing" /\ lib.last.docker_calls = 0)
        /\ \A k \in 1..MaxContainers : lib.removes[k] <= 1 /\ lib.released[k] <= 1
        /\ (lib.last.call = "execute" /\ ~lib.last.ready) =>
              (lib.last.outcome = "raised" /\ ~lib.last.ran)
        /\ lib.life \in {"new", "stopped"} => lib.container = 0

\* start, stop, stop, execute: the second stop did nothing and execute raised
C35_Witness ==
    /\ lib.kind = "sandbox"
    /\ lib.last.call = "stop" /\ lib.last.life = "stopped" /\ lib.last.outcome = "nothing"
    /\ lib.state[1] = "removed" /\ lib.removes[1] = 1 /\ lib.released[1] = 1

C35_WitnessExecute ==
    /\ lib.kind = "sandbox"
    /\ lib.last.call = "execute" /\ lib.last.life = "stopped" /\ lib.last.outcome = "raised"
    /\ lib.removes[1] = 1

-----------------------------------------------------------------------------
(* Who changes replan_attempts (Spec)                                      *)

\* C36: planner, critique and executor hand on the replan_attempts they were given:
\* no step of a run of the graph in which one of them runs changes the counter, so
\* the planner reached again after a critique that did not approve finds the value
\* the run had before.
C36_OnlyReflectionChangesAttempts ==
    [][ (gpc \in {"planner_node", "critique_node", "executor_node"}) =>
            (st'.replan_attempts = st.replan_attempts) ]_vars

\* the critique rejected the plan and the planner ran again
C36_Witness ==
    /\ Len(trace) >= 3
    /\ trace[1] = "planner_node" /\ trace[2] = "critique_node" /\ trace[3] = "planner_node"
    /\ st0.replan_attempts = 2 /\ st.replan_attempts = 2

-----------------------------------------------------------------------------
(* The life of a step's status (SchedSpec)                                 *)

StatusTransitions ==
    { <<"pending", "running">>, <<"pending", "skipped">>, <<"running", "success">>,
      <<"running", "failed">>, <<"failed", "retrying">>, <<"retrying", "running">> }

\* C37: every change of a step's status during execute_plan is one of pending to
\* running, pending to skipped, running to success, running to failed, failed to
\* retrying, retrying to running; so success and skipped are never left and pending is
\* never entered.
C37_StatusFollowsTransitions ==
    [][ /\ Len(plan') = Len(plan)
        /\ \A i \in 1..Len(plan) :
              \/ plan'[i].status = plan[i].status
              \/ <<plan[i].status, plan'[i].status>> \in StatusTransitions ]_vars

\* one step failed, was retried and succeeded; another was skipped; one failed for good
C37_Witness ==
    /\ spc = "done" /\ Len(plan) = 3
    /\ \E i, j, k \in 1..3 :
          /\ plan[i].status = "success" /\ plan[i].retry_count = 1
          /\ plan[j].status = "failed" /\ plan[j].retry_count = 1
          /\ plan[k].status = "skipped" /\ plan[k].retry_count = 0

-----------------------------------------------------------------------------
(* The steps of a plan when execute_plan returns (SchedSpec)               *)

\* how often step i is listed
Occurrences(list, i) == Cardinality({ k \in 1..Len(list) : list[k] = i })

\* C38: when execute_plan has returned, every step is in exactly one of four groups:
\* success and once in completed_steps, failed and once in failed_steps, skipped and
\* in neither list, pending and in neither list; no step is in both lists or twice in
\* one, and none is running or retrying.
C38_StepsPartitioned ==
    (spc = "done" /\ xres.returned) =>
        \A i \in 1..Len(plan) :
            LET c == Occurrences(xres.completed_steps, i)
                f == Occurrences(xres.failed_steps, i)
            IN /\ plan[i].status \in {"success", "failed", "skipped", "pending"}
               /\ plan[i].status = "success" <=> c = 1
               /\ plan[i].status = "failed" <=> f = 1
               /\ c + f <= 1
               /\ plan[i].status \in {"skipped", "pending"} <=> c + f = 0

\* all four groups at once need four steps; three of them after a run stopped early
C38_Witness ==
    /\ spc = "done" /\ xres.returned /\ Len(plan) = 3
    /\ Len(xres.completed_steps) = 1 /\ Len(xres.failed_steps) = 1
    /\ \E i \in 1..3 : plan[i].status = "pending"

C38_WitnessSkipped ==
    /\ spc = "done" /\ xres.returned /\ Len(plan) = 3
    /\ Len(xres.completed_steps) = 1 /\ Len(xres.failed_steps) = 1
    /\ \E i \in 1..3 : plan[i].status = "skipped"

-----------------------------------------------------------------------------
(* What a completed step records (SchedSpec)                               *)

\* C39: when execute_plan has returned, every step in completed_steps has status
\* success and no recorded error, also when it succeeded on a retry after a failed
\* first attempt.
C39_CompletedStepsCarryNoError ==
    (spc = "done" /\ xres.returned) =>
        \A k \in 1..Len(xres.completed_steps) :
            /\ plan[xres.completed_steps[k]].status = "success"
            /\ plan[xres.completed_steps[k]].error = "None"

-----------------------------------------------------------------------------
(* Enabled plugins and the tool registry (PluginsSpec)                     *)

\* C40: after any sequence of enable_plugin and disable_plugin calls, an installed
\* plugin whose enabled flag is true has all of its tools in the tool registry and one
\* whose flag is false has none, so disable followed by enable restores the registry.
C40_EnabledPluginsAreRegistered ==
    lib.kind = "plugins" =>
        \A q \in lib.installed :
            IF lib.enabled[q] THEN ToolsOfPlugin(q) \subseteq lib.tools
            ELSE ToolsOfPlugin(q) \cap lib.tools = {}

=============================================================================
